---- MODULE Spec2Model ----
(***************************************************************************)
(* A model of the CSW harvester: the cursor state machine of src/sync.ts,  *)
(* and of src/csw-client.ts the pagination aggregator fetchAllRecords, the *)
(* page fetch fetchPage with its request encoder buildGetRecordsXml, and   *)
(* the extractor parseGetRecordsResponse.                                  *)
(*                                                                         *)
(* Values.  A nullable JavaScript value is <<>> (null) or <<v>>.  A        *)
(* JavaScript number is <<>> (NaN), <<n>> or <<1, 0>> (Infinity).  A       *)
(* timestamp is the number of milliseconds an ISO 8601 string stands for   *)
(* (toISOString is injective on valid dates and sync.ts never parses a     *)
(* date string back).                                                      *)
(*                                                                         *)
(* Specifications.  Spec: sync invocations against a server that may       *)
(* answer anything.  LiveSpec: sync invocations against an honest          *)
(* catalogue server, with fairness.  AllSpec: fetchAllRecords calls.       *)
(* AggSpec: fetchAllRecords calls against a server with pages of any size. *)
(* ParseSpec: parseGetRecordsResponse calls, open tags and attributes.     *)
(* ExtractSpec: parseGetRecordsResponse calls, whole tag-event streams.    *)
(* FetchSpec: fetchPage calls, with any options, status and body.          *)
(* PagingSpec: sync invocations with the clock standing still, or          *)
(* fetchAllRecords calls.  WorkerSpec: the Worker's scheduled runs.        *)
(* HarvestSpec: sync invocations against the honest server, with a record *)
(* of what was fetched.  OverlapSpec: two sync invocations at a time.      *)
(* WindowSpec: sync invocations and the windows they complete.             *)
(* A dated value of a fetchPage call is the ISO 8601 string itself.        *)
(***************************************************************************)
EXTENDS Integers, Sequences, FiniteSets, TLC

\* ---------------------------------------------------------------- bounds
\* Against an arbitrary server: the clock is observed at 0, SLEEP_MS, ...,
\* MaxClock * SLEEP_MS.
MaxClock == 1
\* Largest numberOfRecordsMatched an arbitrary server reports.
MaxMatched == 2
\* Against the honest catalogue server: the clock is observed up to
\* LiveMaxClock * SLEEP_MS, the catalogue holds up to MaxCatalogue records,
\* up to MaxFaults fetches fail or invocations are aborted.
LiveMaxClock == 1
MaxCatalogue == 3
MaxFaults == 1
\* fetchAllRecords: maxRecordsPerPage is 1..MaxPageSize, the result set has
\* 0..MaxResultSet records, a finite maxTotalRecords is 0..MaxTotal.
MaxPageSize == 2
MaxResultSet == 4
MaxTotal == 3
\* parseGetRecordsResponse: a document has up to MaxOpenTags open tags.
MaxOpenTags == 2
\* The extractor: a document has up to MaxTags elements and delivers up to
\* MaxChunks text events, any number of them between the same two tags.
MaxTags == 7
MaxChunks == 2
\* Largest --max-pages value tried.
MaxBudget == 2
\* The Worker's scheduled handler: the clock is observed up to
\* MaxCron * SLEEP_MS.
MaxCron == 3
\* The windows of sync are followed until MaxWindows of them are completed.
MaxWindows == 3

\* ------------------------------------------------------- program constants
PAGE_SIZE == 200
SLEEP_MS == 60000
LookbackMs == 15 * 60 * 1000
DayMs == 24 * 60 * 60 * 1000

\* ------------------------------------------------------------- JS values
None == <<>>
Some(x) == <<x>>
NaN == <<>>
Num(n) == <<n>>
IsNum(a) == a # NaN
\* a > b and a <= b on JavaScript numbers: false as soon as one side is NaN.
JsGT(a, b) == IsNum(a) /\ IsNum(b) /\ a[1] > b[1]
JsLE(a, b) == IsNum(a) /\ IsNum(b) /\ a[1] <= b[1]
Last(s) == s[Len(s)]

\* ------------------------------------------------------------ pagination
\* hasMore as the search-results open tag computes it.
HasMoreOffByOne(nextRecord, matched) ==
    JsGT(nextRecord, Num(0)) /\ IsNum(matched) /\ nextRecord[1] < matched[1]

HasMoreNoLowerBound(nextRecord, matched) == JsLE(nextRecord, matched)

HasMore(nextRecord, matched) ==
    JsGT(nextRecord, Num(0)) /\ JsLE(nextRecord, matched)

\* The pagination object after a search-results open tag with the three
\* attribute values already converted by parseInt.
SearchResults(matched, returned, nextRecord) ==
    [numberOfRecordsMatched |-> matched,
     numberOfRecordsReturned |-> returned,
     nextRecord |-> nextRecord,
     hasMore |-> HasMore(nextRecord, matched)]

PageResultCountsRecords(records, pagination) ==
    [records |-> records,
     pagination |-> [totalMatched |-> pagination.numberOfRecordsMatched,
                     returned |-> Num(Len(records)),
                     nextRecord |-> pagination.nextRecord,
                     hasMore |-> pagination.hasMore]]

\* fetchPage's return value from the parser's result.
PageResult(records, pagination) ==
    [records |-> records,
     pagination |-> [totalMatched |-> pagination.numberOfRecordsMatched,
                     returned |-> pagination.numberOfRecordsReturned,
                     nextRecord |-> pagination.nextRecord,
                     hasMore |-> pagination.hasMore]]

\* ---------------------------------------------------------------- cursor
IdleCursor(lastRun) == [lastRun |-> lastRun, pending |-> None]
PendingCursor(lastRun, startDate, endDate, startPosition) ==
    [lastRun |-> lastRun,
     pending |-> Some([startDate |-> startDate, endDate |-> endDate,
                       startPosition |-> startPosition])]

JsonStringifyDropsLastRun(c) ==
    << <<"lastRun", IF c.pending = None THEN c.lastRun ELSE None>>,
       <<"pending",
         IF c.pending = None THEN None
         ELSE Some(<< <<"startDate", Some(c.pending[1].startDate)>>,
                      <<"endDate", Some(c.pending[1].endDate)>>,
                      <<"startPosition", c.pending[1].startPosition>> >>)>> >>

\* JSON.stringify of a Cursor: the document as its key/value pairs, in key
\* order; null is <<>>.
JsonStringify(c) ==
    << <<"lastRun", c.lastRun>>,
       <<"pending",
         IF c.pending = None THEN None
         ELSE Some(<< <<"startDate", Some(c.pending[1].startDate)>>,
                      <<"endDate", Some(c.pending[1].endDate)>>,
                      <<"startPosition", c.pending[1].startPosition>> >>)>> >>

\* JSON.parse of such a document, back to a Cursor.
JsonParse(doc) ==
    [lastRun |-> doc[1][2],
     pending |-> IF doc[2][2] = None THEN None
                 ELSE Some([startDate |-> doc[2][2][1][1][2][1],
                            endDate |-> doc[2][2][1][2][2][1],
                            startPosition |-> doc[2][2][1][3][2]])]

\* The environment variable CSW_CURSOR: unset, or a text: the empty string
\* or a JSON document.
Unset == <<>>
EmptyString == <<>>

\* if (!raw): unset and the empty string are falsy.
readCursor(env) ==
    IF env = Unset \/ env[1] = EmptyString
    THEN [lastRun |-> None, pending |-> None]
    ELSE JsonParse(env[1])

\* writeCursor appends one line to standard output.
writeCursor(out, cursor) == Append(out, JsonStringify(cursor))

\* ------------------------------------------------------------ sync: main
\* One sync invocation's local state (the variables of main, and what it
\* has done so far):
\*   pc         "idle" | "fetching" | "sleeping" | "done" | "failed" | "aborted"
\*   cursor     the cursor read at line 64
\*   now, startDate, endDate, startPosition, position, page, maxPages
\*   started    Date.now() when the invocation started
\*   days       TIME_OFFSET_DAYS of the invocation
\*   stdout     the lines writeCursor has written
\*   requests   the fetchPage calls made, in order
\*   results    the PageResults received, in order
\*   log        "read" | "fetch" | "write" | "sleep" | "error" events, in
\*              order ("error": a fetchPage call rejected)
\*   ended      how the invocation before this one ended: "none" | "done" |
\*              "failed" | "aborted"
BudgetArgs == {NaN} \cup {Num(b) : b \in 0..MaxBudget}
OffsetDays == {0, 1}

NoRun ==
    [pc |-> "idle", started |-> 0, days |-> 0,
     cursor |-> IdleCursor(None), now |-> 0, startDate |-> 0,
     endDate |-> 0, startPosition |-> Num(1), position |-> Num(1), page |-> 1,
     maxPages |-> Num(1), stdout |-> <<>>, requests |-> <<>>,
     results |-> <<>>, log |-> <<>>, ended |-> "none"]

\* cursor.pending?.startDate ?? cursor.lastRun ?? first-run lookback
StartDateOfLookback(cursor, clockMs, offsetMs) ==
    IF cursor.pending # None THEN cursor.pending[1].startDate
    ELSE clockMs - offsetMs - LookbackMs

StartDateOfNow(cursor, clockMs, offsetMs) ==
    IF cursor.pending # None THEN cursor.pending[1].startDate
    ELSE IF cursor.lastRun # None THEN cursor.lastRun[1]
    ELSE clockMs - offsetMs

StartDateOf(cursor, clockMs, offsetMs) ==
    IF cursor.pending # None THEN cursor.pending[1].startDate
    ELSE IF cursor.lastRun # None THEN cursor.lastRun[1]
    ELSE clockMs - offsetMs - LookbackMs

\* cursor.pending?.endDate ?? now
EndDateOfNow(cursor, now) == now

EndDateOf(cursor, now) ==
    IF cursor.pending # None THEN cursor.pending[1].endDate ELSE now

\* cursor.pending?.startPosition ?? 1
StartPositionOfOne(cursor) == Num(1)

StartPositionOf(cursor) ==
    IF cursor.pending # None THEN cursor.pending[1].startPosition ELSE Num(1)

\* The argument of the fetchPage call of the loop body.
PageRequest(r) ==
    [startDate |-> r.startDate, endDate |-> r.endDate,
     maxRecords |-> PAGE_SIZE, startPosition |-> r.position]

\* The loop head: while page <= maxPages the body runs up to its await of
\* fetchPage; otherwise main returns.
LoopHead(r) ==
    IF JsLE(Num(r.page), r.maxPages)
    THEN [r EXCEPT !.pc = "fetching",
                   !.requests = Append(@, PageRequest(r)),
                   !.log = Append(@, "fetch")]
    ELSE [r EXCEPT !.pc = "done"]

\* main from its first line to its first suspension.
MainStart(env, clockMs, days, maxPages) ==
    LET cursor == readCursor(env)
        offsetMs == days * DayMs
        now == clockMs - offsetMs
    IN  LoopHead([NoRun EXCEPT
                    !.started = clockMs,
                    !.days = days,
                    !.cursor = cursor,
                    !.now = now,
                    !.startDate = StartDateOf(cursor, clockMs, offsetMs),
                    !.endDate = EndDateOf(cursor, now),
                    !.startPosition = StartPositionOf(cursor),
                    !.position = StartPositionOf(cursor),
                    !.page = 1,
                    !.maxPages = maxPages,
                    !.log = <<"read">>])

\* The cursor written when a page reports hasMore = false.
CompletedCursorNow(r) == IdleCursor(Some(r.now))

CompletedCursor(r) == IdleCursor(Some(r.endDate))

\* The cursor written when the page limit is reached.
SavedCursorStale(r, position) ==
    PendingCursor(r.cursor.lastRun, r.startDate, r.endDate, r.startPosition)

SavedCursorAdvancesLastRun(r, position) ==
    PendingCursor(Some(r.endDate), r.startDate, r.endDate, position)

SavedCursorSkipsOne(r, position) ==
    PendingCursor(r.cursor.lastRun, r.startDate, r.endDate,
                  Num(position[1] + 1))

SavedCursor(r, position) ==
    PendingCursor(r.cursor.lastRun, r.startDate, r.endDate, position)

Write(r, cursor) ==
    [r EXCEPT !.stdout = writeCursor(@, cursor), !.log = Append(@, "write")]

\* The loop body from the return of fetchPage to the next suspension or
\* return.
AfterPageNoReturn(r, result) ==
    LET got == [r EXCEPT !.results = Append(@, result)]
        w1 == IF ~result.pagination.hasMore
              THEN Write(got, CompletedCursor(got)) ELSE got
        moved == [w1 EXCEPT !.position = result.pagination.nextRecord]
    IN  IF Num(moved.page) = moved.maxPages
        THEN [Write(moved, SavedCursor(moved, moved.position))
                EXCEPT !.pc = "done"]
        ELSE IF ~result.pagination.hasMore THEN [w1 EXCEPT !.pc = "done"]
        ELSE [moved EXCEPT !.pc = "sleeping", !.log = Append(@, "sleep")]

AfterPageSavesEachPage(r, result) ==
    LET got == [r EXCEPT !.results = Append(@, result)]
    IN  IF ~result.pagination.hasMore
        THEN [Write(got, CompletedCursor(got)) EXCEPT !.pc = "done"]
        ELSE LET moved == [got EXCEPT
                             !.position = result.pagination.nextRecord]
                 saved == Write(moved, SavedCursor(moved, moved.position))
             IN  IF Num(moved.page) = moved.maxPages
                 THEN [saved EXCEPT !.pc = "done"]
                 ELSE [saved EXCEPT !.pc = "sleeping",
                                    !.log = Append(@, "sleep")]

AfterPageKeepsPosition(r, result) ==
    LET got == [r EXCEPT !.results = Append(@, result)]
    IN  IF ~result.pagination.hasMore
        THEN [Write(got, CompletedCursor(got)) EXCEPT !.pc = "done"]
        ELSE IF Num(got.page) = got.maxPages
             THEN [Write(got, SavedCursor(got, result.pagination.nextRecord))
                     EXCEPT !.pc = "done"]
             ELSE [got EXCEPT !.pc = "sleeping", !.log = Append(@, "sleep")]

AfterPageSleepsAtLimit(r, result) ==
    LET got == [r EXCEPT !.results = Append(@, result)]
    IN  IF ~result.pagination.hasMore
        THEN [Write(got, CompletedCursor(got)) EXCEPT !.pc = "done"]
        ELSE LET moved == [got EXCEPT
                             !.position = result.pagination.nextRecord]
                 slept == [moved EXCEPT !.log = Append(@, "sleep")]
             IN  IF Num(moved.page) = moved.maxPages
                 THEN [Write(slept, SavedCursor(moved, moved.position))
                         EXCEPT !.pc = "done"]
                 ELSE [slept EXCEPT !.pc = "sleeping"]

AfterPage(r, result) ==
    LET got == [r EXCEPT !.results = Append(@, result)]
    IN  IF ~result.pagination.hasMore
        THEN [Write(got, CompletedCursor(got)) EXCEPT !.pc = "done"]
        ELSE LET moved == [got EXCEPT
                             !.position = result.pagination.nextRecord]
             IN  IF Num(moved.page) = moved.maxPages
                 THEN [Write(moved, SavedCursor(moved, moved.position))
                         EXCEPT !.pc = "done"]
                 ELSE [moved EXCEPT !.pc = "sleeping",
                                    !.log = Append(@, "sleep")]

\* The end of the sleep: page++ and the loop head again.
AfterSleep(r) == LoopHead([r EXCEPT !.page = @ + 1])

\* fetchPage rejects: main's catch handler reports and exits with status 1.
AfterErrorSaves(r) ==
    [Write(r, SavedCursor(r, r.position)) EXCEPT !.pc = "done"]

AfterError(r) == [r EXCEPT !.pc = "failed"]

\* ------------------------------------------------------------- the server
\* What a catalogue server may answer: any search-results attributes.
JsNums(hi) == {NaN} \cup {Num(n) : n \in 0..hi}
AnyResponse ==
    {SearchResults(m, rt, nx) :
        m \in JsNums(MaxMatched), rt \in {Num(0)}, nx \in JsNums(MaxMatched + 1)}

\* What an honest catalogue server answers for a request against a sorted
\* result set of n records (record i is the i-th by modification date): r
\* records from startPosition on, and nextRecord after them, or 0 or n + 1
\* once the set is exhausted.
Min(a, b) == IF a <= b THEN a ELSE b
Max(a, b) == IF a >= b THEN a ELSE b

Page(n, s, r) ==
    {PageResult([k \in 1..r |-> s + k - 1],
                SearchResults(Num(n), Num(r), Num(nx))) :
        nx \in IF s + r <= n THEN {s + r} ELSE {0, n + 1}}

\* The server may return fewer records than asked for, but at least one
\* while some remain.
ServerPages(n, req) ==
    LET s == req.startPosition[1]
    IN  IF s > n THEN Page(n, s, 0)
        ELSE UNION {Page(n, s, r) : r \in 1..Min(req.maxRecords, n - s + 1)}

\* The server returns exactly the records asked for.
FullPages(n, req) ==
    LET s == req.startPosition[1]
    IN  IF s > n THEN Page(n, s, 0)
        ELSE Page(n, s, Min(req.maxRecords, n - s + 1))

\* The number of catalogue records modified in [startDate, endDate).
Matched(cat, req) ==
    Cardinality({i \in DOMAIN cat :
                    req.startDate <= cat[i] /\ cat[i] < req.endDate})

\* ------------------------------------------------------ fetchAllRecords
\* Infinity, the default of maxTotalRecords: a third kind of JavaScript
\* number.
Infinity == <<1, 0>>
IsInf(a) == Len(a) = 2
\* a < b, a - k and Math.min(k, b) for a finite k and b finite, NaN or
\* Infinity.
JsLT(a, b) == IsNum(a) /\ IsNum(b) /\ (IsInf(b) \/ a[1] < b[1])
JsMinus(b, k) == IF IsNum(b) /\ ~IsInf(b) THEN Num(b[1] - k) ELSE b
JsMin(k, b) ==
    IF ~IsNum(b) THEN NaN ELSE IF IsInf(b) THEN Num(k) ELSE Num(Min(k, b[1]))

\* One fetchAllRecords call: its options, its local variables and what it has
\* done so far:
\*   pc         "idle" | "fetching" | "returned" | "rejected"
\*   maxRecordsPerPage, maxTotalRecords
\*   onPage     the callback given: "none" | "returns" | "throws" |
\*              "mutates" (returns after setting hasMore of the pageResult
\*              it was handed to false)
\*   matched    the size of the server's result set for the window
\*   allRecords, startPosition, pageNumber, totalMatched
\*   requests   the fetchPage calls made, in order
\*   results    the PageResults received, in order
\*   calls      the page numbers onPage was called with, in order
\*   log        "fetch" | "push" | "onPage" | "error" events, in order
\*              ("push": a page's records were accumulated; "error": a
\*              fetchPage call rejected)
\*   summary    the summary returned
NoAgg ==
    [pc |-> "idle", maxRecordsPerPage |-> 1, maxTotalRecords |-> Infinity,
     onPage |-> "none", matched |-> 0, allRecords |-> <<>>,
     startPosition |-> Num(1), pageNumber |-> 0, totalMatched |-> Num(0),
     requests |-> <<>>, results |-> <<>>, calls |-> <<>>, log |-> <<>>,
     summary |-> None]

\* The return statement.
AllReturnCountsFromZero(a) ==
    [a EXCEPT !.pc = "returned",
              !.summary = Some([totalMatched |-> a.totalMatched,
                                totalFetched |-> Len(a.allRecords),
                                pagesRequested |-> a.pageNumber - 1])]

AllReturn(a) ==
    [a EXCEPT !.pc = "returned",
              !.summary = Some([totalMatched |-> a.totalMatched,
                                totalFetched |-> Len(a.allRecords),
                                pagesRequested |-> a.pageNumber])]

\* The while loop's head: while fewer than maxTotalRecords records are
\* held, pageNumber++ and fetchPage is called; otherwise the call returns.
AllLoopHeadOffByOne(a) ==
    IF \/ JsLT(Num(Len(a.allRecords)), a.maxTotalRecords)
       \/ Num(Len(a.allRecords)) = a.maxTotalRecords
    THEN [a EXCEPT
            !.pc = "fetching",
            !.pageNumber = @ + 1,
            !.requests = Append(@,
                [maxRecords |->
                    JsMin(a.maxRecordsPerPage,
                          JsMinus(a.maxTotalRecords, Len(a.allRecords)))[1],
                 startPosition |-> a.startPosition]),
            !.log = Append(@, "fetch")]
    ELSE AllReturn(a)

AllLoopHeadNoShrink(a) ==
    IF JsLT(Num(Len(a.allRecords)), a.maxTotalRecords)
    THEN [a EXCEPT
            !.pc = "fetching",
            !.pageNumber = @ + 1,
            !.requests = Append(@,
                [maxRecords |-> a.maxRecordsPerPage,
                 startPosition |-> a.startPosition]),
            !.log = Append(@, "fetch")]
    ELSE AllReturn(a)

AllLoopHead(a) ==
    IF JsLT(Num(Len(a.allRecords)), a.maxTotalRecords)
    THEN [a EXCEPT
            !.pc = "fetching",
            !.pageNumber = @ + 1,
            !.requests = Append(@,
                [maxRecords |->
                    JsMin(a.maxRecordsPerPage,
                          JsMinus(a.maxTotalRecords, Len(a.allRecords)))[1],
                 startPosition |-> a.startPosition]),
            !.log = Append(@, "fetch")]
    ELSE AllReturn(a)

\* fetchAllRecords from its first line to its first await.
AllStart(perPage, maxTotal, onPage, matched) ==
    AllLoopHead([NoAgg EXCEPT !.maxRecordsPerPage = perPage,
                              !.maxTotalRecords = maxTotal,
                              !.onPage = onPage,
                              !.matched = matched])

\* startPosition = pageResult.pagination.nextRecord
NextStartSkips(pageResult) ==
    IF IsNum(pageResult.pagination.nextRecord)
    THEN Num(pageResult.pagination.nextRecord[1] + 1) ELSE NaN

NextStart(pageResult) == pageResult.pagination.nextRecord

\* The pageResult object as it is after onPage(pageResult, pageNumber) was
\* called with it.
Observed(onPage, pageResult) ==
    IF onPage = "mutates"
    THEN [pageResult EXCEPT !.pagination.hasMore = FALSE]
    ELSE pageResult

\* The loop body from the return of fetchPage to the next await or return.
AllAfterPageSkipsLast(a, pageResult) ==
    LET pushed == [a EXCEPT
                     !.results = Append(@, pageResult),
                     !.totalMatched = pageResult.pagination.totalMatched,
                     !.allRecords = @ \o pageResult.records,
                     !.log = Append(@, "push")]
        got == IF a.onPage = "none" THEN pushed
               ELSE [pushed EXCEPT !.calls = Append(@, a.pageNumber),
                                   !.log = Append(@, "onPage")]
    IN  IF ~pageResult.pagination.hasMore THEN AllReturn(pushed)
        ELSE IF a.onPage = "throws" THEN [got EXCEPT !.pc = "rejected"]
        ELSE IF ~Observed(a.onPage, pageResult).pagination.hasMore
        THEN AllReturn(got)
        ELSE AllLoopHead([got EXCEPT
                            !.startPosition =
                                NextStart(Observed(a.onPage, pageResult))])

AllAfterPageHookBreaks(a, pageResult) ==
    LET pushed == [a EXCEPT
                     !.results = Append(@, pageResult),
                     !.totalMatched = pageResult.pagination.totalMatched,
                     !.allRecords = @ \o pageResult.records,
                     !.log = Append(@, "push")]
        got == IF a.onPage = "none" THEN pushed
               ELSE [pushed EXCEPT !.calls = Append(@, a.pageNumber),
                                   !.log = Append(@, "onPage")]
    IN  IF a.onPage = "throws" THEN [got EXCEPT !.pc = "rejected"]
        ELSE IF a.onPage # "none" \/ ~pageResult.pagination.hasMore
        THEN AllReturn(got)
        ELSE AllLoopHead([got EXCEPT !.startPosition = NextStart(pageResult)])

AllAfterPage(a, pageResult) ==
    LET pushed == [a EXCEPT
                     !.results = Append(@, pageResult),
                     !.totalMatched = pageResult.pagination.totalMatched,
                     !.allRecords = @ \o pageResult.records,
                     !.log = Append(@, "push")]
        got == IF a.onPage = "none" THEN pushed
               ELSE [pushed EXCEPT !.calls = Append(@, a.pageNumber),
                                   !.log = Append(@, "onPage")]
    IN  IF a.onPage = "throws" THEN [got EXCEPT !.pc = "rejected"]
        ELSE IF ~Observed(a.onPage, pageResult).pagination.hasMore
        THEN AllReturn(got)
        ELSE AllLoopHead([got EXCEPT
                            !.startPosition =
                                NextStart(Observed(a.onPage, pageResult))])

\* fetchPage rejects: so does fetchAllRecords.
AllAfterError(a) ==
    [a EXCEPT !.pc = "rejected", !.log = Append(@, "error")]

\* ---------------------------------------------- parseGetRecordsResponse
\* An attribute value is a sequence of characters; an attribute is None
\* (absent) or <<value>>.
Digits == {"0", "1", "2", "3"}
DigitValue(c) ==
    CASE c = "0" -> 0 [] c = "1" -> 1 [] c = "2" -> 2 [] c = "3" -> 3

\* The value of the longest prefix of s made of digits, given the value acc
\* of the digits read so far.
RECURSIVE DigitsValue(_, _)
DigitsValue(s, acc) ==
    IF s = <<>> \/ Head(s) \notin Digits THEN acc
    ELSE DigitsValue(Tail(s), 10 * acc + DigitValue(Head(s)))

\* parseInt(s, 10): an optional sign, then digits up to the first other
\* character; NaN when there is no digit.
ParseInt(s) ==
    LET signed == s # <<>> /\ Head(s) = "-"
        body == IF signed THEN Tail(s) ELSE s
    IN  IF body = <<>> \/ Head(body) \notin Digits THEN NaN
        ELSE Num((IF signed THEN -1 ELSE 1) * DigitsValue(body, 0))

\* attrs.name || "0"
OrZero(attr) == IF attr = None \/ attr[1] = <<>> THEN <<"0">> ELSE attr[1]

NoRecord == [source |-> None, dateStamp |-> None, title |-> None]

\* One parseGetRecordsResponse call: result (pagination, records), the state
\* tracking variables, and
\*   pc         "idle" | "parsing" | "returned"
\*   page       the PageResult fetchPage makes of the result
\*   doc        what has been fed to the parser so far:
\*     tags         the number of open-tag events
\*     openRoots    one flag per record-root element now open: whether a
\*                  record-root element was opened inside it
\*     rootsClosed  the number of record-root close-tag events
\*     plainClosed  the number of those whose element held no record root
\*     first, last  per field, the trimmed text of the first and of the
\*                  latest element closed on a path of that field since
\*                  the latest record-root open tag
NoParse ==
    [pc |-> "idle",
     pagination |-> [numberOfRecordsMatched |-> Num(0),
                     numberOfRecordsReturned |-> Num(0),
                     nextRecord |-> Num(0),
                     hasMore |-> FALSE],
     records |-> <<>>, currentRecord |-> None, currentPath |-> <<>>,
     textBuffer |-> <<>>, page |-> None, error |-> None,
     doc |-> [tags |-> 0, openRoots |-> <<>>, rootsClosed |-> 0,
              plainClosed |-> 0, first |-> NoRecord, last |-> NoRecord,
              returned |-> None, texts |-> 0, sinceOpen |-> <<>>,
              stray |-> None]]

onerrorReturnsPartial(p, message) ==
    [p EXCEPT !.pc = "returned",
              !.page = Some(PageResult(p.records, p.pagination))]

\* parser.onerror: the handler throws, the exception leaves parser.write or
\* parser.close and so parseGetRecordsResponse without a return value; what
\* was collected so far stays in the abandoned result object and locals.
onerror(p, message) ==
    [p EXCEPT !.pc = "failed",
              !.error = Some(<<"XML parsing error: ", message>>)]

\* parser.onopentag
onopentag(p, name, attrs) ==
    LET pushed == [p EXCEPT !.currentPath = Append(@, name),
                            !.textBuffer = <<>>]
    IN  IF name = "csw:SearchResults"
        THEN [pushed EXCEPT !.pagination =
                SearchResults(
                    ParseInt(OrZero(attrs.numberOfRecordsMatched)),
                    ParseInt(OrZero(attrs.numberOfRecordsReturned)),
                    ParseInt(OrZero(attrs.nextRecord)))]
        ELSE IF name = "gmd:MD_Metadata"
        THEN [pushed EXCEPT !.currentRecord = Some(NoRecord)]
        ELSE pushed

ontextKeepsLastChunk(p, text) == [p EXCEPT !.textBuffer = text]

\* parser.ontext
ontext(p, text) == [p EXCEPT !.textBuffer = @ \o text]

\* String.prototype.trim on a sequence of characters.
RECURSIVE TrimStart(_)
TrimStart(s) ==
    IF s # <<>> /\ Head(s) = " " THEN TrimStart(Tail(s)) ELSE s

RECURSIVE TrimEnd(_)
TrimEnd(s) ==
    IF s # <<>> /\ Last(s) = " " THEN TrimEnd(SubSeq(s, 1, Len(s) - 1))
    ELSE s

Trim(s) == TrimEnd(TrimStart(s))

\* The paths the close-tag handler looks for at the end of pathStr.
SourcePath ==
    <<"gmd:citation", "gmd:CI_Citation", "gmd:identifier",
      "gmd:MD_Identifier", "gmd:code", "gco:CharacterString">>
DateTimePath == <<"gmd:dateStamp", "gco:DateTime">>
DatePath == <<"gmd:dateStamp", "gco:Date">>
TitlePath ==
    <<"gmd:citation", "gmd:CI_Citation", "gmd:title", "gco:CharacterString">>

\* name.endsWith(suffix) for the tag names that occur: a name ends with
\* itself, and "my:gmd:dateStamp" ends with "gmd:dateStamp".
StrEndsWith(name, suffix) ==
    \/ name = suffix
    \/ <<name, suffix>> \in {<<"my:gmd:dateStamp", "gmd:dateStamp">>}

\* currentPath.join("/").endsWith(pattern.join("/")): tag names hold no
\* "/", so the last names are equal one by one and the name that meets the
\* pattern's first name ends with it.
PathEndsWith(path, pattern) ==
    LET d == Len(path) - Len(pattern)
    IN  /\ d >= 0
        /\ StrEndsWith(path[d + 1], pattern[1])
        /\ \A i \in 2..Len(pattern) : path[d + i] = pattern[i]

\* The field the close-tag handler's if / else-if chain assigns for a path:
\* "source", "dateStamp", "title" or "none".
FieldOf(path) ==
    IF PathEndsWith(path, SourcePath) THEN "source"
    ELSE IF PathEndsWith(path, DateTimePath) \/ PathEndsWith(path, DatePath)
    THEN "dateStamp"
    ELSE IF PathEndsWith(path, TitlePath) THEN "title"
    ELSE "none"

\* The assignment to a field of the current record.
AssignedKeepsFirst(record, field, text) ==
    IF record[field] = None THEN [record EXCEPT ![field] = Some(Trim(text))]
    ELSE record

Assigned(record, field, text) == [record EXCEPT ![field] = Some(Trim(text))]

\* parser.onclosetag
onclosetagAlwaysEmits(p, name) ==
    LET field == FieldOf(p.currentPath)
        current == IF p.currentRecord # None /\ field # "none"
                   THEN Some(Assigned(p.currentRecord[1], field, p.textBuffer))
                   ELSE p.currentRecord
        closed == IF name = "gmd:MD_Metadata"
                  THEN [p EXCEPT !.records =
                                    Append(@, IF current # None
                                              THEN current[1] ELSE NoRecord),
                                 !.currentRecord = None]
                  ELSE [p EXCEPT !.currentRecord = current]
    IN  [closed EXCEPT !.currentPath = SubSeq(@, 1, Len(@) - 1)]

onclosetagKeepsRecord(p, name) ==
    LET field == FieldOf(p.currentPath)
        current == IF p.currentRecord # None /\ field # "none"
                   THEN Some(Assigned(p.currentRecord[1], field, p.textBuffer))
                   ELSE p.currentRecord
        closed == IF name = "gmd:MD_Metadata" /\ current # None
                  THEN [p EXCEPT !.records = Append(@, current[1]),
                                 !.currentRecord = current]
                  ELSE [p EXCEPT !.currentRecord = current]
    IN  [closed EXCEPT !.currentPath = SubSeq(@, 1, Len(@) - 1)]

onclosetag(p, name) ==
    LET field == FieldOf(p.currentPath)
        current == IF p.currentRecord # None /\ field # "none"
                   THEN Some(Assigned(p.currentRecord[1], field, p.textBuffer))
                   ELSE p.currentRecord
        closed == IF name = "gmd:MD_Metadata" /\ current # None
                  THEN [p EXCEPT !.records = Append(@, current[1]),
                                 !.currentRecord = None]
                  ELSE [p EXCEPT !.currentRecord = current]
    IN  [closed EXCEPT !.currentPath = SubSeq(@, 1, Len(@) - 1)]

\* The document fed so far, after one more open tag or close tag.
DocOpen(d, name, attrs) ==
    LET opened == [d EXCEPT !.tags = @ + 1, !.sinceOpen = <<>>]
    IN  IF name = "csw:SearchResults"
        THEN [opened EXCEPT !.returned = attrs.numberOfRecordsReturned]
        ELSE IF name = "gmd:MD_Metadata"
        THEN [opened EXCEPT
                !.openRoots = Append([i \in DOMAIN @ |-> TRUE], FALSE),
                !.first = NoRecord,
                !.last = NoRecord]
        ELSE opened

\* The document fed so far, after one more text event.
DocText(d, text) ==
    [d EXCEPT !.texts = @ + 1, !.sinceOpen = Append(@, text)]

\* The chunks of a node's text joined in document order.
RECURSIVE Joined(_)
Joined(chunks) ==
    IF chunks = <<>> THEN <<>> ELSE Head(chunks) \o Joined(Tail(chunks))

DocClose(d, path, text) ==
    LET field == FieldOf(path)
        seen == IF d.openRoots # <<>> /\ field # "none"
                THEN [d EXCEPT
                        !.first = IF @[field] = None
                                  THEN [@ EXCEPT ![field] = Some(Trim(text))]
                                  ELSE @,
                        !.last = [@ EXCEPT ![field] = Some(Trim(text))]]
                ELSE IF field # "none"
                THEN [d EXCEPT !.stray = Some(Trim(text))]
                ELSE d
    IN  IF Last(path) = "gmd:MD_Metadata"
        THEN [seen EXCEPT
                !.openRoots = SubSeq(@, 1, Len(@) - 1),
                !.rootsClosed = @ + 1,
                !.plainClosed = IF Last(d.openRoots) THEN @ ELSE @ + 1]
        ELSE seen

\* return result, and fetchPage's translation of it.
ParseReturn(p) ==
    [p EXCEPT !.pc = "returned",
              !.page = Some(PageResult(p.records, p.pagination))]

\* An open tag without attributes.
NoAttrs ==
    [numberOfRecordsMatched |-> None, numberOfRecordsReturned |-> None,
     nextRecord |-> None]

ParseStartKeepsResult(previous) ==
    [previous EXCEPT !.pc = "parsing", !.page = None, !.error = None]

\* parseGetRecordsResponse's first statements: a new parser, a new result
\* and new locals, whatever an earlier call (previous) left behind.
ParseStart(previous) == [NoParse EXCEPT !.pc = "parsing"]

\* The events the tag-event source makes of a response body.
OpenTag(name, attrs) ==
    [type |-> "open", name |-> name, attrs |-> attrs, text |-> <<>>,
     message |-> ""]
TextEvent(text) ==
    [type |-> "text", name |-> "", attrs |-> NoAttrs, text |-> text,
     message |-> ""]
CloseTag(name) ==
    [type |-> "close", name |-> name, attrs |-> NoAttrs, text |-> <<>>,
     message |-> ""]
ErrorEvent(message) ==
    [type |-> "error", name |-> "", attrs |-> NoAttrs, text |-> <<>>,
     message |-> message]

\* parser.write(xmlText).close(): the handlers run in event order until one
\* throws.
RECURSIVE Feed(_, _)
Feed(p, events) ==
    IF events = <<>> \/ p.pc # "parsing" THEN p
    ELSE LET e == Head(events)
         IN  Feed(CASE e.type = "open" -> onopentag(p, e.name, e.attrs)
                    [] e.type = "text" -> ontext(p, e.text)
                    [] e.type = "close" -> onclosetag(p, e.name)
                    [] OTHER -> onerror(p, e.message),
                  Tail(events))

\* parseGetRecordsResponse(xmlText), called after a call that left previous.
parseGetRecordsResponse(previous, xmlText) ==
    LET fed == Feed(ParseStart(previous), xmlText)
    IN  IF fed.pc = "parsing" THEN ParseReturn(fed) ELSE fed

\* ------------------------------------------------------------ fetchPage
DEFAULT_MAX_RECORDS == 100

\* An optional string in a template literal.
Literal(v) == IF v = None THEN "undefined" ELSE v[1]
\* if (endDate): undefined and the empty string are falsy.
Truthy(v) == v # None /\ v[1] # ""

buildGetRecordsXmlLowerOnly(o) ==
    [maxRecords |-> o.maxRecords,
     startPosition |-> o.startPosition,
     conjunction |-> FALSE,
     filter |-> <<[op |-> "ogc:PropertyIsGreaterThanOrEqualTo",
                   property |-> "apiso:Modified",
                   literal |-> Literal(o.startDate)]>>,
     sortBy |-> [property |-> "apiso:Modified", order |-> "ASC"]]

\* buildGetRecordsXml: the GetRecords document, as its attributes, the
\* comparisons of its filter (joined by ogc:And when there are two) and its
\* sort property.
buildGetRecordsXml(o) ==
    LET startFilter == [op |-> "ogc:PropertyIsGreaterThanOrEqualTo",
                        property |-> "apiso:Modified",
                        literal |-> Literal(o.startDate)]
    IN  [maxRecords |-> o.maxRecords,
         startPosition |-> o.startPosition,
         conjunction |-> Truthy(o.endDate),
         filter |-> IF Truthy(o.endDate)
                    THEN <<startFilter,
                           [op |-> "ogc:PropertyIsLessThan",
                            property |-> "apiso:Modified",
                            literal |-> Literal(o.endDate)]>>
                    ELSE <<startFilter>>,
         sortBy |-> [property |-> "apiso:Modified", order |-> "ASC"]]

\* A fetchPage call: who called, the options passed, the request body sent,
\* the number of fetch calls and of parseGetRecordsResponse calls made, the
\* response received, and the outcome (page returned or error thrown).
\* answer is the Worker's HTTP answer when the /query route is the caller;
\* earlier is the body and the page of the latest call that returned before
\* this one.
NoOptions ==
    [startDate |-> None, endDate |-> None, maxRecords |-> None,
     startPosition |-> None]
NoFetch ==
    [pc |-> "idle", caller |-> "none", options |-> NoOptions,
     request |-> None, exchanges |-> 0, parses |-> 0, response |-> None,
     error |-> None, page |-> None, answer |-> None, earlier |-> None]

\* fetchPage up to its await of fetch: defaults, request body, one POST.
fetchPage(caller, o) ==
    [NoFetch EXCEPT
       !.pc = "awaiting",
       !.caller = caller,
       !.options = o,
       !.request = Some(buildGetRecordsXml(
           [startDate |-> o.startDate,
            endDate |-> o.endDate,
            maxRecords |-> IF o.maxRecords = None
                           THEN Num(DEFAULT_MAX_RECORDS) ELSE o.maxRecords[1],
            startPosition |-> IF o.startPosition = None
                              THEN Num(1) ELSE o.startPosition[1]])),
       !.exchanges = 1]

\* response.ok, and the status as the template literal prints it.
Ok(status) == status >= 200 /\ status <= 299
StatusString(status) ==
    CASE status = 200 -> "200" [] status = 404 -> "404" [] OTHER -> "500"
StatusText(status) ==
    CASE status = 200 -> "OK" [] status = 404 -> "Not Found"
      [] OTHER -> "Internal Server Error"

\* The Worker's /query route after fetchPage settled: the page as JSON, or
\* the catch block's 500.
Answered(f) ==
    IF f.caller # "worker" THEN f
    ELSE [f EXCEPT !.answer = IF f.pc = "returned" THEN Some("200")
                              ELSE Some("500")]

\* fetch rejected (no response at all): fetchPage rejects with that error.
fetchRejected(f) ==
    Answered([f EXCEPT !.pc = "failed", !.error = Some(<<"fetch failed">>)])

fetchPageNotOkRetries(f, response) ==
    [f EXCEPT !.exchanges = @ + 1]

\* if (!response.ok) throw
fetchPageNotOk(f, response) ==
    Answered([f EXCEPT
       !.pc = "failed",
       !.response = Some(response),
       !.error = Some(<<"CSW request failed: ",
                        StatusString(response.status),
                        StatusText(response.status)>>)])

\* response.text(), parseGetRecordsResponse (parsed is what it left), and
\* the return of the translated result, or the parser's exception.
fetchPageOk(f, response, parsed) ==
    Answered([f EXCEPT
       !.pc = IF parsed.pc = "failed" THEN "failed" ELSE "returned",
       !.response = Some(response),
       !.parses = @ + 1,
       !.error = parsed.error,
       !.page = parsed.page])

\* The Worker's /query route with a startPosition parameter: the parameters
\* are strings or absent.
workerQuery(params) ==
    IF ~Truthy(params.startDate)
    THEN [NoFetch EXCEPT !.caller = "worker", !.answer = Some("400")]
    ELSE fetchPage("worker",
            [startDate |-> params.startDate,
             endDate |-> IF Truthy(params.endDate) THEN params.endDate
                         ELSE None,
             maxRecords |-> IF params.maxRecords = None
                            THEN Some(Num(100))
                            ELSE Some(ParseInt(params.maxRecords[1])),
             startPosition |-> Some(ParseInt(params.startPosition[1]))])

\* ------------------------------------------- the Worker's scheduled run
\* A scheduled run: its position, its endDate and startDate, the KV entry
\* as it was when the run started, and the ends of the windows whose
\* fetchAllRecords call has resolved so far (in this and earlier runs).
NoJob ==
    [pc |-> "idle", startDate |-> 0, endDate |-> 0, before |-> None,
     harvested |-> {}]

\* scheduled from its first line to its await of CSW_KV.get.
scheduled(j, clockMs, kv) ==
    [j EXCEPT !.pc = "getting", !.endDate = clockMs, !.startDate = 0,
              !.before = kv]

\* From the value of CSW_KV.get to the await of CSW_KV.put: the first run
\* ever looks back 24 hours.
scheduledGot(j, clockMs, value) ==
    [j EXCEPT !.pc = "putting",
              !.startDate = IF value = None THEN clockMs - DayMs
                            ELSE value[1]]

\* CSW_KV.put("lastRun", endDate) is done; fetchAllRecords is called.
scheduledPut(j) == [j EXCEPT !.pc = "fetching"]

\* fetchAllRecords resolved: the run logs the result and ends.
scheduledFetched(j) ==
    [j EXCEPT !.pc = "done", !.harvested = @ \cup {j.endDate}]

\* fetchAllRecords rejected: so does the handler.
scheduledFailed(j) == [j EXCEPT !.pc = "failed"]

\* -------------------------------------------------------------- the state
\* ------------------------------------------------ the harvest so far
\* What the sync invocations have obtained, kept beside the program:
\*   fetched   <<startDate, endDate, position>> of every record a resolved
\*             fetchPage call has returned, for the windows still open
\*   done      the windows whose end was stored as lastRun
\*   missed    <<startDate, endDate, position>> of every record of a
\*             completed window that no call had returned by then
\*   first     the startDate of the first window completed
\*   lastEnd   the endDate of the window completed most recently
NoLedger ==
    [fetched |-> {}, done |-> {}, missed |-> {}, first |-> None,
     lastEnd |-> None]

\* The window of invocation r.
WindowOf(r) == <<r.startDate, r.endDate>>

\* fetchPage resolves with result for invocation r; open is the set of
\* windows that an invocation or the stored cursor still refers to.
Harvested(l, r, result, open) ==
    [l EXCEPT !.fetched =
        {t \in @ : <<t[1], t[2]>> \in open}
            \cup {<<r.startDate, r.endDate, result.records[k]>> :
                      k \in DOMAIN result.records}]

\* The positions of r's window returned so far.
Positions(l, r) ==
    {t[3] : t \in {u \in l.fetched : <<u[1], u[2]>> = WindowOf(r)}}

\* The workflow stores the outcome of invocation r over catalogue cat.
Completed(l, r, cat) ==
    IF /\ r.pc = "done"
       /\ r.stdout # <<>>
       /\ readCursor(Some(Last(r.stdout))).pending = None
    THEN [l EXCEPT
            !.done = @ \cup {[startDate |-> r.startDate,
                              endDate |-> r.endDate]},
            !.missed = @ \cup {<<r.startDate, r.endDate, q>> :
                                  q \in (1..Matched(cat, r))
                                            \ Positions(l, r)},
            !.first = IF @ = None THEN Some(r.startDate) ELSE @,
            !.lastEnd = Some(r.endDate)]
    ELSE l

VARIABLES
    clock,        \* Date.now(), in milliseconds
    CSW_CURSOR,   \* the repository variable: Unset or <<document>>
    run,          \* the current sync invocation
    cursorBefore, \* CSW_CURSOR as it was when the invocation started
    window,       \* the window most recently created: None or <<[start, end]>>
    catalogue,    \* the modification dates of the catalogue's records
    faults,       \* failed fetches and aborts so far (counted where bounded)
    agg,          \* the current fetchAllRecords call
    px,           \* the current parseGetRecordsResponse call
    fp,           \* the current fetchPage call
    CSW_KV,       \* the Worker's KV entry lastRun: None or <<timestamp>>
    job,          \* the Worker's current scheduled run
    other,        \* a second sync invocation, started while run is running
    ledger        \* what the invocations so far have fetched and completed

syncVars == <<clock, CSW_CURSOR, run, cursorBefore, window>>
serverVars == <<catalogue, faults>>
workerVars == <<CSW_KV, job>>
harvestVars == <<other, ledger>>
libVars == <<agg, px, fp, workerVars, harvestVars>>
vars == <<syncVars, serverVars, libVars>>

SyncInit ==
    /\ clock = 0
    /\ CSW_CURSOR = Unset
    /\ run = NoRun
    /\ cursorBefore = Unset
    /\ window = None

ServerInit ==
    /\ catalogue = <<>>
    /\ faults = 0

LibInit ==
    /\ agg = NoAgg
    /\ px = NoParse
    /\ fp = NoFetch
    /\ CSW_KV = None
    /\ job = NoJob
    /\ other = NoRun
    /\ ledger = NoLedger

\* Time passes (observed up to horizon * SLEEP_MS).
TimePasses(horizon) ==
    /\ clock < horizon * SLEEP_MS
    /\ clock' = clock + SLEEP_MS
    /\ UNCHANGED <<CSW_CURSOR, run, cursorBefore, window>>

\* The scheduler starts an invocation with some --max-pages and
\* TIME_OFFSET_DAYS (none is running).
Starts(budgets, offsets) ==
    /\ run.pc = "idle"
    /\ \E maxPages \in budgets, days \in offsets :
         LET r == MainStart(CSW_CURSOR, clock, days, maxPages)
         IN  /\ run' = r
             /\ window' = IF r.cursor.pending = None
                          THEN Some([startDate |-> r.startDate,
                                     endDate |-> r.endDate])
                          ELSE window
    /\ cursorBefore' = CSW_CURSOR
    /\ UNCHANGED <<clock, CSW_CURSOR>>

\* fetchPage resolves with the parsed response.
Returns(result) ==
    /\ run.pc = "fetching"
    /\ run' = AfterPage(run, result)
    /\ UNCHANGED <<clock, CSW_CURSOR, cursorBefore, window>>

\* fetchPage rejects: non-success status, network failure, XML error.
Throws ==
    /\ run.pc = "fetching"
    /\ run' = AfterError([run EXCEPT !.log = Append(@, "error")])
    /\ UNCHANGED <<clock, CSW_CURSOR, cursorBefore, window>>

\* The inter-page delay ends.
Wakes ==
    /\ run.pc = "sleeping"
    /\ run' = AfterSleep(run)
    /\ UNCHANGED <<clock, CSW_CURSOR, cursorBefore, window>>

\* The host aborts the invocation at a suspension point.
Aborts ==
    /\ run.pc \in {"fetching", "sleeping"}
    /\ run' = [run EXCEPT !.pc = "aborted"]
    /\ UNCHANGED <<clock, CSW_CURSOR, cursorBefore, window>>

\* The workflow step after the script: a successful run's output line is
\* stored back as the repository variable; a failed or aborted run stores
\* nothing.
StoredAfter(r, env) ==
    IF r.pc = "done" /\ r.stdout # <<>> THEN Some(Last(r.stdout)) ELSE env

Ended(r) ==
    IF \E i \in DOMAIN r.log : r.log[i] = "error" THEN "failed" ELSE r.pc

Stores ==
    /\ run.pc \in {"done", "failed", "aborted"}
    /\ CSW_CURSOR' = StoredAfter(run, CSW_CURSOR)
    /\ run' = [NoRun EXCEPT !.ended = Ended(run)]
    /\ UNCHANGED <<clock, cursorBefore, window>>

\* ------------------------------------- sync against an arbitrary server
Tick == TimePasses(MaxClock) /\ UNCHANGED <<serverVars, libVars>>

StartInvocation == Starts(BudgetArgs, OffsetDays) /\ UNCHANGED <<serverVars, libVars>>

FetchPageReturns ==
    /\ \E pagination \in AnyResponse : Returns(PageResult(<<>>, pagination))
    /\ UNCHANGED <<serverVars, libVars>>

FetchPageThrows == Throws /\ UNCHANGED <<serverVars, libVars>>

SleepEnds == Wakes /\ UNCHANGED <<serverVars, libVars>>

HostAborts == Aborts /\ UNCHANGED <<serverVars, libVars>>

WorkflowStore == Stores /\ UNCHANGED <<serverVars, libVars>>

Init == SyncInit /\ ServerInit /\ LibInit

Next ==
    \/ Tick
    \/ StartInvocation
    \/ FetchPageReturns
    \/ FetchPageThrows
    \/ SleepEnds
    \/ HostAborts
    \/ WorkflowStore

Spec == Init /\ [][Next]_vars

\* ---------------------------- sync against an honest catalogue server
\* Records are added to the catalogue with the current time as their
\* modification date; fetches fail and the host aborts at most MaxFaults
\* times in all; every invocation has a page budget of at least 1 and
\* TIME_OFFSET_DAYS is not set.
Budgets == {Num(1), Num(2)}

LiveTick == TimePasses(LiveMaxClock) /\ UNCHANGED <<serverVars, libVars>>

AddRecord ==
    /\ Len(catalogue) < MaxCatalogue
    /\ catalogue' = Append(catalogue, clock)
    /\ UNCHANGED <<syncVars, faults, libVars>>

LiveStart == Starts(Budgets, {0}) /\ UNCHANGED <<serverVars, libVars>>

LiveFetchReturns ==
    /\ run.pc = "fetching"
    /\ \E result \in ServerPages(Matched(catalogue, Last(run.requests)),
                                 Last(run.requests)) : Returns(result)
    /\ UNCHANGED <<serverVars, libVars>>

LiveFetchThrows ==
    /\ faults < MaxFaults
    /\ Throws
    /\ faults' = faults + 1
    /\ UNCHANGED <<catalogue, libVars>>

LiveSleepEnds == Wakes /\ UNCHANGED <<serverVars, libVars>>

LiveAborts ==
    /\ faults < MaxFaults
    /\ Aborts
    /\ faults' = faults + 1
    /\ UNCHANGED <<catalogue, libVars>>

LiveStore == Stores /\ UNCHANGED <<serverVars, libVars>>

LiveNext ==
    \/ LiveTick
    \/ AddRecord
    \/ LiveStart
    \/ LiveFetchReturns
    \/ LiveFetchThrows
    \/ LiveSleepEnds
    \/ LiveAborts
    \/ LiveStore

\* The scheduler keeps starting invocations, a pending fetch or sleep ends,
\* and the workflow step runs after the script.
LiveSpec ==
    /\ Init
    /\ [][LiveNext]_vars
    /\ WF_vars(LiveStart)
    /\ WF_vars(LiveFetchReturns)
    /\ WF_vars(LiveSleepEnds)
    /\ WF_vars(LiveStore)

\* -------------------- fetchAllRecords against a server with full pages
TotalArgs == {Infinity, NaN} \cup {Num(t) : t \in 0..MaxTotal}

AllCalled ==
    /\ agg.pc \in {"idle", "returned", "rejected"}
    /\ \E perPage \in 1..MaxPageSize, maxTotal \in TotalArgs,
          onPage \in {"none", "returns", "throws"},
          matched \in 0..MaxResultSet :
         agg' = AllStart(perPage, maxTotal, onPage, matched)
    /\ UNCHANGED <<syncVars, serverVars, px, fp, workerVars, harvestVars>>

AllFetchReturns ==
    /\ agg.pc = "fetching"
    /\ \E pageResult \in FullPages(agg.matched, Last(agg.requests)) :
         agg' = AllAfterPage(agg, pageResult)
    /\ UNCHANGED <<syncVars, serverVars, px, fp, workerVars, harvestVars>>

AllFetchThrows ==
    /\ agg.pc = "fetching"
    /\ agg' = AllAfterError(agg)
    /\ UNCHANGED <<syncVars, serverVars, px, fp, workerVars, harvestVars>>

AllNext ==
    \/ AllCalled
    \/ AllFetchReturns
    \/ AllFetchThrows

AllSpec == Init /\ [][AllNext]_vars

\* ------------- fetchAllRecords against a server with pages of any size
\* The server may return fewer records than asked for, and the callback may
\* be any of the four kinds.
AggCalled ==
    /\ agg.pc \in {"idle", "returned", "rejected"}
    /\ \E perPage \in 1..MaxPageSize, maxTotal \in TotalArgs,
          onPage \in {"none", "returns", "throws", "mutates"},
          matched \in 0..MaxResultSet :
         agg' = AllStart(perPage, maxTotal, onPage, matched)
    /\ UNCHANGED <<syncVars, serverVars, px, fp, workerVars, harvestVars>>

AggFetchReturns ==
    /\ agg.pc = "fetching"
    /\ \E pageResult \in ServerPages(agg.matched, Last(agg.requests)) :
         agg' = AllAfterPage(agg, pageResult)
    /\ UNCHANGED <<syncVars, serverVars, px, fp, workerVars, harvestVars>>

AggFetchThrows ==
    /\ agg.pc = "fetching"
    /\ agg' = AllAfterError(agg)
    /\ UNCHANGED <<syncVars, serverVars, px, fp, workerVars, harvestVars>>

AggNext ==
    \/ AggCalled
    \/ AggFetchReturns
    \/ AggFetchThrows

AggSpec == Init /\ [][AggNext]_vars

\* ----------------------------- parseGetRecordsResponse on open tags
\* The documents tried: up to MaxOpenTags open tags, each a search-results
\* tag with any attributes, a record root or another element.  Text and
\* close tags do not touch result.pagination and are left out here.
AttrStrings ==
    {<<>>, <<"0">>, <<"1">>, <<"2">>, <<"3">>, <<"1", "2">>, <<"-", "1">>,
     <<"x">>, <<"2", "x">>, <<"x", "2">>}
Attrs == {None} \cup {Some(v) : v \in AttrStrings}
ReturnedAttrs == {None, Some(<<"1">>), Some(<<"x">>)}
ParseCalled ==
    /\ px.pc \in {"idle", "returned"}
    /\ px' = ParseStart(px)
    /\ UNCHANGED <<syncVars, serverVars, agg, fp, workerVars, harvestVars>>

OpenSearchResults ==
    /\ px.pc = "parsing"
    /\ Len(px.currentPath) < MaxOpenTags
    /\ \E m \in Attrs, r \in ReturnedAttrs, n \in Attrs :
         px' = onopentag(px, "csw:SearchResults",
                         [numberOfRecordsMatched |-> m,
                          numberOfRecordsReturned |-> r,
                          nextRecord |-> n])
    /\ UNCHANGED <<syncVars, serverVars, agg, fp, workerVars, harvestVars>>

OpenOther ==
    /\ px.pc = "parsing"
    /\ Len(px.currentPath) < MaxOpenTags
    /\ \E name \in {"csw:GetRecordsResponse", "gmd:MD_Metadata"} :
         px' = onopentag(px, name, NoAttrs)
    /\ UNCHANGED <<syncVars, serverVars, agg, fp, workerVars, harvestVars>>

ParseEnds ==
    /\ px.pc = "parsing"
    /\ px' = ParseReturn(px)
    /\ UNCHANGED <<syncVars, serverVars, agg, fp, workerVars, harvestVars>>

ParseNext ==
    \/ ParseCalled
    \/ OpenSearchResults
    \/ OpenOther
    \/ ParseEnds

ParseSpec == Init /\ [][ParseNext]_vars

\* ------------------------ parseGetRecordsResponse on tag-event streams
\* The documents tried are well formed: one root element, every close tag
\* closes the innermost open element.  An element's children are drawn from
\* Children: the elements of the three field paths, field elements outside
\* a record, a record root inside a record root, and an element whose name
\* only ends with a field path's first name.
Children(path) ==
    IF path = <<>> THEN {"csw:SearchResults", "gmd:MD_Metadata"}
    ELSE CASE Last(path) = "csw:SearchResults" ->
                {"gmd:MD_Metadata", "gmd:dateStamp"}
           [] Last(path) = "gmd:MD_Metadata" ->
                {"gmd:MD_Metadata", "gmd:dateStamp", "my:gmd:dateStamp",
                 "gmd:citation"}
           [] Last(path) \in {"gmd:dateStamp", "my:gmd:dateStamp"} ->
                {"gco:DateTime", "gco:Date"}
           [] Last(path) = "gmd:citation" -> {"gmd:CI_Citation"}
           [] Last(path) = "gmd:CI_Citation" -> {"gmd:title", "gmd:identifier"}
           [] Last(path) = "gmd:title" -> {"gco:CharacterString"}
           [] Last(path) = "gmd:identifier" -> {"gmd:MD_Identifier"}
           [] Last(path) = "gmd:MD_Identifier" -> {"gmd:code"}
           [] Last(path) = "gmd:code" -> {"gco:CharacterString"}
           [] OTHER -> {}

\* The text events tried: one character each.
Chunks == {<<"a">>, <<"b">>}

\* The attributes an open tag carries: a search-results element may state
\* its numberOfRecordsReturned.
TagAttrs(name) ==
    IF name = "csw:SearchResults"
    THEN {[NoAttrs EXCEPT !.numberOfRecordsReturned = r] :
            r \in ReturnedAttrs}
    ELSE {NoAttrs}

ExtractCalled ==
    /\ px.pc \in {"idle", "returned"}
    /\ px' = ParseStart(px)
    /\ UNCHANGED <<syncVars, serverVars, agg, fp, workerVars, harvestVars>>

TagOpens ==
    /\ px.pc = "parsing"
    /\ px.doc.tags < MaxTags
    /\ px.currentPath = <<>> => px.doc.tags = 0
    /\ \E name \in Children(px.currentPath) :
         \E attrs \in TagAttrs(name) :
           px' = [onopentag(px, name, attrs) EXCEPT
                    !.doc = DocOpen(px.doc, name, attrs)]
    /\ UNCHANGED <<syncVars, serverVars, agg, fp, workerVars, harvestVars>>

TextArrives ==
    /\ px.pc = "parsing"
    /\ px.currentPath # <<>>
    /\ px.doc.texts < MaxChunks
    /\ \E text \in Chunks :
         px' = [ontext(px, text) EXCEPT !.doc = DocText(px.doc, text)]
    /\ UNCHANGED <<syncVars, serverVars, agg, fp, workerVars, harvestVars>>

TagCloses ==
    /\ px.pc = "parsing"
    /\ px.currentPath # <<>>
    /\ px' = [onclosetag(px, Last(px.currentPath)) EXCEPT
                 !.doc = DocClose(px.doc, px.currentPath,
                                  Joined(px.doc.sinceOpen))]
    /\ UNCHANGED <<syncVars, serverVars, agg, fp, workerVars, harvestVars>>

DocumentEnds ==
    /\ px.pc = "parsing"
    /\ px.currentPath = <<>>
    /\ px.doc.tags > 0
    /\ px' = ParseReturn(px)
    /\ UNCHANGED <<syncVars, serverVars, agg, fp, workerVars, harvestVars>>

ExtractNext ==
    \/ ExtractCalled
    \/ TagOpens
    \/ TextArrives
    \/ TagCloses
    \/ DocumentEnds

ExtractSpec == Init /\ [][ExtractNext]_vars

\* ------------------------------------------------- one of the two pagers
\* Either sync.ts invocations run, against an arbitrary server and with the
\* clock standing still, or fetchAllRecords calls run.
NothingSynced == SyncInit

\* The repository variable is set to the empty string (no invocation runs).
VariableEmptied ==
    /\ run.pc = "idle"
    /\ CSW_CURSOR # Some(EmptyString)
    /\ CSW_CURSOR' = Some(EmptyString)
    /\ UNCHANGED <<clock, run, cursorBefore, window, serverVars, libVars>>

PagingNext ==
    \/ /\ agg = NoAgg
       /\ \/ StartInvocation
          \/ VariableEmptied
          \/ FetchPageReturns
          \/ FetchPageThrows
          \/ SleepEnds
          \/ HostAborts
          \/ WorkflowStore
    \/ /\ NothingSynced
       /\ AggNext

PagingSpec == Init /\ [][PagingNext]_vars

\* ------------------------------------------------------------ fetchPage
\* One fetchPage call at a time, by a library caller with any options, by
\* the Worker's /query route, or by sync.ts; the endpoint answers with any
\* status and any of the bodies below, or not at all.
StartDay == "2026-01-21T00:00:00Z"
EndDay == "2026-01-22T00:00:00Z"

LibraryOptions ==
    [startDate : {None, Some(StartDay)},
     endDate : {None, Some(""), Some(EndDay)},
     maxRecords : {None, Some(Num(1))},
     startPosition : {None, Some(Num(2))}]

QueryParams ==
    [startDate : {None, Some(""), Some(StartDay)},
     endDate : {None, Some(""), Some(EndDay)},
     maxRecords : {None},
     startPosition : {Some(<<"2">>), Some(<<"x">>)}]

\* The options of sync.ts's fetchPage call.
SyncOptions ==
    {[startDate |-> Some(StartDay), endDate |-> Some(EndDay),
      maxRecords |-> Some(Num(PAGE_SIZE)), startPosition |-> Some(Num(n))] :
        n \in {1, 2}}

\* The diagnostics the tag-event source reports for a malformed document.
Diagnostics == {"Unexpected close tag", "Unclosed root tag"}

RecordEvents ==
    <<OpenTag("gmd:MD_Metadata", NoAttrs),
      OpenTag("gmd:dateStamp", NoAttrs),
      OpenTag("gco:DateTime", NoAttrs),
      TextEvent(<<"a">>),
      CloseTag("gco:DateTime"),
      CloseTag("gmd:dateStamp"),
      CloseTag("gmd:MD_Metadata")>>

PageBody(matched, returned, nextRecord, records) ==
    <<OpenTag("csw:SearchResults",
              [numberOfRecordsMatched |-> Some(matched),
               numberOfRecordsReturned |-> Some(returned),
               nextRecord |-> Some(nextRecord)])>>
    \o records \o <<CloseTag("csw:SearchResults")>>

FinalPage == PageBody(<<"1">>, <<"1">>, <<"0">>, RecordEvents)
MorePage == PageBody(<<"3">>, <<"1">>, <<"2">>, RecordEvents)
EmptyPage == PageBody(<<"0">>, <<"0">>, <<"0">>, <<>>)
\* A service error report: no search-results element.
ExceptionReport ==
    <<OpenTag("ows:ExceptionReport", NoAttrs),
      OpenTag("ows:Exception", NoAttrs),
      OpenTag("ows:ExceptionText", NoAttrs),
      TextEvent(<<"b">>),
      CloseTag("ows:ExceptionText"),
      CloseTag("ows:Exception"),
      CloseTag("ows:ExceptionReport")>>

WellFormed == {FinalPage, MorePage, EmptyPage, ExceptionReport, RecordEvents}
\* A document cut at any point, where the source reports an error.
Malformed ==
    {SubSeq(MorePage, 1, k) \o <<ErrorEvent(d)>> :
        k \in 0..Len(MorePage), d \in Diagnostics}
Bodies == WellFormed \cup Malformed
Statuses == {200, 404, 500}

\* The latest call that returned before the call now starting.
Earlier ==
    IF fp.pc = "returned"
    THEN Some([body |-> fp.response[1].body, page |-> fp.page])
    ELSE fp.earlier

FetchPageCalled ==
    /\ fp.pc # "awaiting"
    /\ \E o \in LibraryOptions \cup SyncOptions :
         fp' = [fetchPage(IF o \in SyncOptions THEN "sync" ELSE "library", o)
                  EXCEPT !.earlier = Earlier]
    /\ UNCHANGED <<syncVars, serverVars, agg, px, workerVars, harvestVars>>

WorkerQueryCalled ==
    /\ fp.pc # "awaiting"
    /\ \E params \in QueryParams :
         fp' = [workerQuery(params) EXCEPT !.earlier = Earlier]
    /\ UNCHANGED <<syncVars, serverVars, agg, px, workerVars, harvestVars>>

ResponseNotOk ==
    /\ fp.pc = "awaiting"
    /\ \E status \in Statuses, body \in {ExceptionReport, MorePage} :
         /\ ~Ok(status)
         /\ fp' = fetchPageNotOk(fp, [status |-> status, body |-> body])
    /\ UNCHANGED <<syncVars, serverVars, agg, px, workerVars, harvestVars>>

ResponseOk ==
    /\ fp.pc = "awaiting"
    /\ \E status \in Statuses, body \in Bodies :
         /\ Ok(status)
         /\ px' = parseGetRecordsResponse(px, body)
         /\ fp' = fetchPageOk(fp, [status |-> status, body |-> body], px')
    /\ UNCHANGED <<syncVars, serverVars, agg, workerVars, harvestVars>>

FetchRejects ==
    /\ fp.pc = "awaiting"
    /\ fp' = fetchRejected(fp)
    /\ UNCHANGED <<syncVars, serverVars, agg, px, workerVars, harvestVars>>

FetchNext ==
    \/ FetchPageCalled
    \/ WorkerQueryCalled
    \/ ResponseNotOk
    \/ ResponseOk
    \/ FetchRejects

FetchSpec == Init /\ [][FetchNext]_vars

\* ------------------------------------------- the Worker's scheduled run
\* Cron triggers fire one after the other; the catalogue server answers
\* every fetchAllRecords call or fails it.
CronTick == TimePasses(MaxCron) /\ UNCHANGED <<serverVars, libVars>>

CronFires ==
    /\ job.pc \in {"idle", "done", "failed"}
    /\ job' = scheduled(job, clock, CSW_KV)
    /\ UNCHANGED <<syncVars, serverVars, agg, px, fp, CSW_KV, harvestVars>>

KvGetReturns ==
    /\ job.pc = "getting"
    /\ job' = scheduledGot(job, clock, CSW_KV)
    /\ UNCHANGED <<syncVars, serverVars, agg, px, fp, CSW_KV, harvestVars>>

KvPutReturns ==
    /\ job.pc = "putting"
    /\ CSW_KV' = Some(job.endDate)
    /\ job' = scheduledPut(job)
    /\ UNCHANGED <<syncVars, serverVars, agg, px, fp, harvestVars>>

FetchAllResolves ==
    /\ job.pc = "fetching"
    /\ job' = scheduledFetched(job)
    /\ UNCHANGED <<syncVars, serverVars, agg, px, fp, CSW_KV, harvestVars>>

FetchAllRejects ==
    /\ job.pc = "fetching"
    /\ job' = scheduledFailed(job)
    /\ UNCHANGED <<syncVars, serverVars, agg, px, fp, CSW_KV, harvestVars>>

WorkerNext ==
    \/ CronTick
    \/ CronFires
    \/ KvGetReturns
    \/ KvPutReturns
    \/ FetchAllResolves
    \/ FetchAllRejects

WorkerSpec == Init /\ [][WorkerNext]_vars

\* ------------------------------- sync invocations and what they harvest
\* Invocations run one at a time against the honest catalogue server, with
\* TIME_OFFSET_DAYS unset and a page budget of at least 1; beside failed
\* fetches and aborts the server may answer with status 200 and a body that
\* has no csw:SearchResults element, which fetchPage returns as an empty
\* last page.
ReportPage == PageResult(<<>>, NoParse.pagination)

HarvestFetchReturns ==
    /\ run.pc = "fetching"
    /\ \E result \in ServerPages(Matched(catalogue, Last(run.requests)),
                                 Last(run.requests)) :
         /\ Returns(result)
         /\ ledger' = Harvested(ledger, run, result, {WindowOf(run)})
    /\ UNCHANGED <<serverVars, agg, px, fp, workerVars, other>>

HarvestFetchReports ==
    /\ faults < MaxFaults
    /\ Returns(ReportPage)
    /\ faults' = faults + 1
    /\ UNCHANGED <<catalogue, libVars>>

HarvestStore ==
    /\ Stores
    /\ ledger' = Completed(ledger, run, catalogue)
    /\ UNCHANGED <<serverVars, agg, px, fp, workerVars, other>>

HarvestNext ==
    \/ LiveTick
    \/ AddRecord
    \/ LiveStart
    \/ HarvestFetchReturns
    \/ HarvestFetchReports
    \/ LiveFetchThrows
    \/ LiveSleepEnds
    \/ LiveAborts
    \/ HarvestStore

HarvestSpec == Init /\ [][HarvestNext]_vars

\* ------------------------------------------ two overlapping invocations
\* The scheduler does not keep invocations apart: while one invocation
\* runs, a second one starts from the same stored cursor, and the workflow
\* stores each one's output when it is done. The server is the honest
\* catalogue server answering with pages of one record, TIME_OFFSET_DAYS is
\* unset, budgets are at least 1, and a second invocation starts once.
SinglePages(n, req) ==
    LET s == req.startPosition[1]
    IN  IF s > n THEN Page(n, s, 0) ELSE Page(n, s, 1)

OpenWindows ==
    {WindowOf(run), WindowOf(other)}
        \cup (IF readCursor(CSW_CURSOR).pending = None THEN {}
              ELSE {WindowOf(readCursor(CSW_CURSOR).pending[1])})

OverlapFetchReturns ==
    /\ run.pc = "fetching"
    /\ \E result \in SinglePages(Matched(catalogue, Last(run.requests)),
                                 Last(run.requests)) :
         /\ Returns(result)
         /\ ledger' = Harvested(ledger, run, result, OpenWindows)
    /\ UNCHANGED <<serverVars, agg, px, fp, workerVars, other>>

OtherStarts ==
    /\ run.pc \in {"fetching", "sleeping", "done"}
    /\ other.pc = "idle"
    /\ other.ended = "none"
    /\ \E maxPages \in Budgets :
         other' = MainStart(CSW_CURSOR, clock, 0, maxPages)
    /\ UNCHANGED <<syncVars, serverVars, agg, px, fp, workerVars, ledger>>

OtherFetchReturns ==
    /\ other.pc = "fetching"
    /\ \E result \in SinglePages(Matched(catalogue, Last(other.requests)),
                                 Last(other.requests)) :
         /\ other' = AfterPage(other, result)
         /\ ledger' = Harvested(ledger, other, result, OpenWindows)
    /\ UNCHANGED <<syncVars, serverVars, agg, px, fp, workerVars>>

OtherSleepEnds ==
    /\ other.pc = "sleeping"
    /\ other' = AfterSleep(other)
    /\ UNCHANGED <<syncVars, serverVars, agg, px, fp, workerVars, ledger>>

OtherStore ==
    /\ other.pc = "done"
    /\ CSW_CURSOR' = StoredAfter(other, CSW_CURSOR)
    /\ other' = [NoRun EXCEPT !.ended = Ended(other)]
    /\ ledger' = Completed(ledger, other, catalogue)
    /\ UNCHANGED <<clock, run, cursorBefore, window, serverVars, agg, px, fp,
                   workerVars>>

OverlapNext ==
    \/ LiveTick
    \/ AddRecord
    \/ LiveStart
    \/ OverlapFetchReturns
    \/ LiveSleepEnds
    \/ HarvestStore
    \/ OtherStarts
    \/ OtherFetchReturns
    \/ OtherSleepEnds
    \/ OtherStore

OverlapSpec == Init /\ [][OverlapNext]_vars

\* ------------------------------------- sync invocations and their windows
\* Invocations run one at a time while time passes, with TIME_OFFSET_DAYS
\* set or not and a page budget of at least 1, until MaxWindows windows are
\* completed; the server answers each request with a last page or with a
\* page that has more after it.
WindowResponses ==
    {SearchResults(Num(0), Num(0), Num(0)),
     SearchResults(Num(MaxMatched), Num(0), Num(MaxMatched))}

WindowFetchReturns ==
    /\ \E pagination \in WindowResponses :
         Returns(PageResult(<<>>, pagination))
    /\ UNCHANGED <<serverVars, libVars>>

WindowStart ==
    /\ Cardinality(ledger.done) < MaxWindows
    /\ Starts(Budgets, OffsetDays)
    /\ UNCHANGED <<serverVars, libVars>>

WindowStore ==
    /\ Stores
    /\ ledger' = Completed(ledger, run, catalogue)
    /\ UNCHANGED <<serverVars, agg, px, fp, workerVars, other>>

WindowNext ==
    \/ Tick
    \/ WindowStart
    \/ WindowFetchReturns
    \/ FetchPageThrows
    \/ SleepEnds
    \/ HostAborts
    \/ WindowStore

WindowSpec == Init /\ [][WindowNext]_vars

\* ---------------------------------------------------------------- claims
Count(s, e) == Cardinality({i \in DOMAIN s : s[i] = e})
Running == run.pc # "idle"
\* The cursor the invocation found persisted.
Persisted == readCursor(cursorBefore)

\* C1: an invocation that starts with a persisted cursor holding pending uses
\* pending.startDate and pending.endDate in every page request, and
\* pending.startPosition in the first one.
C1_ResumeUsesPending ==
    (Running /\ Persisted.pending # None) =>
        /\ \A i \in DOMAIN run.requests :
             /\ run.requests[i].startDate = Persisted.pending[1].startDate
             /\ run.requests[i].endDate = Persisted.pending[1].endDate
        /\ run.requests # <<>> =>
             run.requests[1].startPosition = Persisted.pending[1].startPosition

C1_Witness ==
    /\ Running /\ Persisted.pending # None
    /\ Len(run.requests) >= 2
    /\ Persisted.pending[1].startPosition # Num(1)
    /\ Persisted.pending[1].endDate # run.now

\* C2: an invocation that starts with no pending and a non-null lastRun
\* requests the window [lastRun, now), now being the clock at invocation
\* start shifted by TIME_OFFSET_DAYS, and its first request starts at 1.
C2_NewWindow ==
    (Running /\ Persisted.pending = None /\ Persisted.lastRun # None) =>
        /\ run.now = run.started - run.days * DayMs
        /\ \A i \in DOMAIN run.requests :
             /\ run.requests[i].startDate = Persisted.lastRun[1]
             /\ run.requests[i].endDate = run.now
        /\ run.requests # <<>> => run.requests[1].startPosition = Num(1)

C2_Witness ==
    /\ Running /\ Persisted.pending = None /\ Persisted.lastRun # None
    /\ Len(run.requests) >= 2
    /\ clock # run.started
    /\ Persisted.lastRun[1] # run.started - run.days * DayMs - LookbackMs

\* C3: a page that reports hasMore = false is the last page the invocation
\* fetches, and the invocation has then written exactly the cursor
\* {lastRun: window.endDate, pending: null}.
C3_WindowCompletion ==
    \A i \in DOMAIN run.results :
        ~run.results[i].pagination.hasMore =>
            /\ i = Len(run.results)
            /\ Len(run.requests) = i
            /\ run.pc = "done"
            /\ run.stdout =
                 <<JsonStringify(IdleCursor(Some(run.requests[i].endDate)))>>

C3_Witness ==
    /\ Persisted.pending # None
    /\ Len(run.results) = 2
    /\ ~run.results[2].pagination.hasMore
    /\ run.requests[2].endDate # run.now

\* C4: when the page that exhausts the budget (page number maxPages) reports
\* hasMore = true, the invocation has written one cursor, whose pending
\* holds the window's startDate and endDate and the nextRecord of that page.
C4_BudgetExhausted ==
    (/\ run.results # <<>>
     /\ Num(Len(run.results)) = run.maxPages
     /\ Last(run.results).pagination.hasMore) =>
        /\ run.pc = "done"
        /\ Len(run.stdout) = 1
        /\ JsonParse(run.stdout[1]).pending =
             Some([startDate |-> Last(run.requests).startDate,
                   endDate |-> Last(run.requests).endDate,
                   startPosition |-> Last(run.results).pagination.nextRecord])

C4_Witness ==
    /\ Len(run.results) = 2
    /\ Num(2) = run.maxPages
    /\ run.results[2].pagination.hasMore
    /\ run.results[2].pagination.nextRecord # run.startPosition
    /\ run.stdout # <<>>

\* C5: while a window is in progress, every persisted cursor, every cursor
\* written and every page request carries the startDate and endDate fixed
\* when the window was created.
HasWindow(c) ==
    c.pending # None =>
        /\ window # None
        /\ c.pending[1].startDate = window[1].startDate
        /\ c.pending[1].endDate = window[1].endDate

C5_WindowFixed ==
    /\ HasWindow(readCursor(CSW_CURSOR))
    /\ \A i \in DOMAIN run.stdout : HasWindow(JsonParse(run.stdout[i]))
    /\ \A i \in DOMAIN run.requests :
         /\ window # None
         /\ run.requests[i].startDate = window[1].startDate
         /\ run.requests[i].endDate = window[1].endDate

C5_Witness ==
    /\ run.cursor.pending # None
    /\ run.now > window[1].endDate
    /\ run.requests # <<>>
    /\ run.stdout # <<>>
    /\ JsonParse(run.stdout[1]).pending # None

\* C6: an invocation in which a page fetch failed has written no cursor, and
\* the persisted cursor is what it was before the invocation, also after
\* the workflow step that follows it.
C6_FailureKeepsCursor ==
    /\ Count(run.log, "error") > 0 =>
         (run.stdout = <<>> /\ CSW_CURSOR = cursorBefore)
    /\ (run.pc = "idle" /\ run.ended = "failed") => CSW_CURSOR = cursorBefore

C6_Witness ==
    /\ run.pc = "failed"
    /\ Len(run.requests) = 2
    /\ Persisted.pending # None

\* C7: under the honest server, budgets >= 1 and finitely many failures, a
\* persisted in-progress window leads to the Idle cursor of that window
\* (lastRun = the window's endDate), whatever is added to the catalogue.
InProgress == readCursor(CSW_CURSOR).pending # None
IdleAtWindowEnd ==
    /\ window # None
    /\ readCursor(CSW_CURSOR) = IdleCursor(Some(window[1].endDate))

C7_Converges == InProgress ~> IdleAtWindowEnd

C7_Witness ==
    /\ IdleAtWindowEnd
    /\ run.ended = "done"
    /\ cursorBefore # Unset
    /\ readCursor(cursorBefore).pending # None
    /\ readCursor(cursorBefore).pending[1].startPosition[1] >= 2
    /\ faults > 0
    /\ \E i \in DOMAIN catalogue : catalogue[i] >= window[1].endDate

\* C8: with no cap on the total, for every page size p >= 1 and result set
\* size n >= 0 the loop started at offset 1 holds at every moment the records
\* 1, 2, ..., k in that order (none skipped, none twice), has asked for at
\* most max(1, ceil(n / p)) pages, and returns with all n records.
PagesNeeded(n, p) == Max(1, (n + p - 1) \div p)

C8_VisitsEachOnce ==
    agg.maxTotalRecords = Infinity =>
        /\ agg.allRecords = [i \in 1..Len(agg.allRecords) |-> i]
        /\ Len(agg.allRecords) <= agg.matched
        /\ agg.pageNumber <= PagesNeeded(agg.matched, agg.maxRecordsPerPage)
        /\ \A i \in DOMAIN agg.requests :
             agg.requests[i].startPosition =
                Num(1 + (i - 1) * agg.maxRecordsPerPage)
        /\ agg.pc = "returned" =>
             /\ Len(agg.allRecords) = agg.matched
             /\ agg.pageNumber =
                  PagesNeeded(agg.matched, agg.maxRecordsPerPage)

C8_Witness ==
    /\ agg.maxTotalRecords = Infinity
    /\ agg.pc = "returned"
    /\ agg.maxRecordsPerPage = 2
    /\ agg.matched = 3
    /\ agg.pageNumber = 2
    /\ agg.allRecords = <<1, 2, 3>>

\* C9: in the parser's result at every moment, and in the PageResult made
\* of it, hasMore is true exactly when nextRecord is a number greater than
\* 0 and at most the number of records matched.
Between(nextRecord, matched) ==
    /\ nextRecord # NaN /\ matched # NaN
    /\ 0 < nextRecord[1] /\ nextRecord[1] <= matched[1]

C9_HasMoreIff ==
    /\ px.pagination.hasMore =
         Between(px.pagination.nextRecord, px.pagination.numberOfRecordsMatched)
    /\ px.page # None =>
         px.page[1].pagination.hasMore =
            Between(px.page[1].pagination.nextRecord,
                    px.page[1].pagination.totalMatched)

C9_Witness ==
    /\ px.page # None
    /\ px.page[1].pagination.hasMore
    /\ px.page[1].pagination.nextRecord = Num(2)
    /\ px.page[1].pagination.totalMatched = Num(2)
    /\ px.page[1].pagination.returned = NaN

\* C10: an invocation reads the cursor once, as its first step and so before
\* any page fetch, and writes it at most once.
C10_ReadOnceWriteAtMostOnce ==
    Running =>
        /\ run.log[1] = "read"
        /\ Count(run.log, "read") = 1
        /\ Count(run.log, "write") <= 1
        /\ Len(run.stdout) = Count(run.log, "write")

C10_Witness ==
    /\ run.pc = "done"
    /\ Len(run.requests) >= 2
    /\ Len(run.stdout) = 1

\* C11: an invocation in which no page fetch failed and that has ended has
\* written the cursor exactly once, whatever --max-pages was.
C11_WritesExactlyOnce ==
    (run.pc = "done" /\ Count(run.log, "error") = 0) => Len(run.stdout) = 1

\* C12 (as claimed, for invocations without TIME_OFFSET_DAYS): an invocation
\* at a suspension point or aborted there has written nothing, and the
\* invocation that follows an aborted one starts from the window and offset
\* the aborted one started from.
AfterAbort == run.pc = "idle" /\ run.ended = "aborted"

C12_AbortRestartsSame ==
    /\ [](run.pc \in {"fetching", "sleeping", "aborted"} => run.stdout = <<>>)
    /\ [][(/\ AfterAbort /\ run'.pc # "idle"
           /\ run'.days = 0 /\ window # None /\ window[1].endDate >= 0) =>
             /\ run'.startDate = window[1].startDate
             /\ run'.endDate = window[1].endDate
             /\ run'.startPosition = StartPositionOf(Persisted)]_vars

\* C12 (amended): an invocation at a suspension point or aborted there has
\* written nothing, a write is never followed by a fetch or a delay, the
\* persisted cursor after an aborted invocation is the one it read, and the
\* next invocation reads that same cursor: with a pending window it starts
\* from the same window and offset; without one it starts at offset 1, from
\* the same lastRun if there is one.
C12_AbortKeepsCursor ==
    /\ [](run.pc \in {"fetching", "sleeping", "aborted"} =>
            run.stdout = <<>> /\ Count(run.log, "write") = 0)
    /\ [](\A i, j \in DOMAIN run.log :
            (i < j /\ run.log[i] = "write") =>
                run.log[j] \notin {"fetch", "sleep"})
    /\ [](AfterAbort => CSW_CURSOR = cursorBefore)
    /\ [][(AfterAbort /\ run'.pc # "idle") =>
             /\ run'.cursor = Persisted
             /\ run'.startPosition = StartPositionOf(Persisted)
             /\ Persisted.pending # None =>
                  /\ run'.startDate = window[1].startDate
                  /\ run'.endDate = window[1].endDate
             /\ (Persisted.pending = None /\ Persisted.lastRun # None) =>
                  /\ run'.startDate = window[1].startDate
                  /\ run'.startPosition = Num(1)]_vars

C12_Witness ==
    /\ AfterAbort
    /\ Persisted.pending # None
    /\ Persisted.pending[1].startPosition # Num(1)
    /\ clock > window[1].endDate

\* The records held reach maxTotalRecords: the loop condition
\* allRecords.length < maxTotalRecords is false.
TotalReached == ~JsLT(Num(Len(agg.allRecords)), agg.maxTotalRecords)
\* The last page, as the loop saw it after the callback.
LastSeen == Observed(agg.onPage, Last(agg.results))
\* The page caps a caller may want to give.
PageCaps == {1, 2}

\* C13 (as claimed): fetchAllRecords starts at offset 1 and, whatever page
\* cap the caller wants, never asks for more pages than the cap, and it has
\* returned only when the last page had hasMore = false, the cap was reached
\* or the records held reached maxTotalRecords.
C13_StopsAtThreeConditions ==
    \A maxPagesCap \in PageCaps :
        /\ agg.requests # <<>> => agg.requests[1].startPosition = Num(1)
        /\ agg.pageNumber <= maxPagesCap
        /\ agg.pc = "returned" =>
             \/ TotalReached
             \/ agg.pageNumber = maxPagesCap
             \/ agg.results # <<>> /\ ~LastSeen.pagination.hasMore

\* C13 (amended): fetchAllRecords starts at offset 1; it goes on to the next
\* page exactly while the last page had hasMore = true and fewer than
\* maxTotalRecords records are held, and returns as soon as one of the two
\* fails (at once, without a request, when maxTotalRecords is 0 or NaN);
\* there is no cap on the number of pages.
C13_StopsAtHasMoreOrTotal ==
    /\ agg.requests # <<>> => agg.requests[1].startPosition = Num(1)
    /\ agg.pc = "fetching" =>
         /\ ~TotalReached
         /\ agg.results # <<>> => LastSeen.pagination.hasMore
         /\ Len(agg.requests) = Len(agg.results) + 1
    /\ agg.pc = "returned" =>
         /\ Len(agg.requests) = Len(agg.results)
         /\ \/ agg.results = <<>> /\ TotalReached
            \/ agg.results # <<>> /\ ~LastSeen.pagination.hasMore
            \/ agg.results # <<>> /\ LastSeen.pagination.hasMore
                                  /\ TotalReached
    /\ agg.pc = "rejected" =>
         \/ Count(agg.log, "error") = 1
         \/ agg.onPage = "throws"

C13_Witness ==
    /\ agg.pc = "returned"
    /\ agg.maxTotalRecords = Infinity
    /\ agg.pageNumber = 3
    /\ Len(agg.allRecords) = 3

\* fetchAllRecords stopped because of maxTotalRecords while the last page
\* reported hasMore = true.
EarlyStop ==
    /\ agg.pc = "returned"
    /\ agg.results # <<>>
    /\ LastSeen.pagination.hasMore
    /\ TotalReached

\* A field of the summary returned, as a JavaScript number.
SummaryNumber(f) ==
    IF f = "totalMatched" THEN agg.summary[1].totalMatched
    ELSE Num(agg.summary[1][f])

\* C14 (as claimed): after an early stop the return value exposes the next
\* offset to resume from: some field of the summary returned holds the last
\* page's nextRecord.
C14_ExposesResumeOffset ==
    EarlyStop =>
        \E f \in DOMAIN agg.summary[1] :
            SummaryNumber(f) = Last(agg.results).pagination.nextRecord

\* C14 (amended): after an early stop the return value is the records held
\* and a summary of exactly totalMatched (of the last page), totalFetched
\* (the number of records held) and pagesRequested (the number of pages
\* fetched): no resume offset is part of it.
C14_ReturnsSummaryOnly ==
    EarlyStop =>
        /\ DOMAIN agg.summary[1] =
             {"totalMatched", "totalFetched", "pagesRequested"}
        /\ agg.summary[1].totalMatched =
             Last(agg.results).pagination.totalMatched
        /\ agg.summary[1].totalFetched = Len(agg.allRecords)
        /\ agg.summary[1].pagesRequested = Len(agg.results)

C14_Witness ==
    /\ EarlyStop
    /\ agg.maxTotalRecords = Num(2)
    /\ Len(agg.results) = 2
    /\ Last(agg.results).pagination.nextRecord = Num(3)
    /\ agg.matched = 4

\* The number of records in the first k of the pages rs.
RECURSIVE RecordsIn(_, _)
RecordsIn(rs, k) ==
    IF k = 0 THEN 0 ELSE RecordsIn(rs, k - 1) + Len(rs[k].records)

\* C15: every page request asks for min(maxRecordsPerPage, maxTotalRecords -
\* records accumulated so far) records (maxRecordsPerPage when there is no
\* cap), and against a server that returns at most what was asked for the
\* records held never exceed maxTotalRecords.
C15_RequestsShrinkToCap ==
    /\ \A i \in DOMAIN agg.requests :
         agg.requests[i].maxRecords =
            IF agg.maxTotalRecords = Infinity THEN agg.maxRecordsPerPage
            ELSE Min(agg.maxRecordsPerPage,
                     agg.maxTotalRecords[1] - RecordsIn(agg.results, i - 1))
    /\ \A i \in DOMAIN agg.results :
         Len(agg.results[i].records) <= agg.requests[i].maxRecords
    /\ Len(agg.allRecords) = RecordsIn(agg.results, Len(agg.results))
    /\ (IsNum(agg.maxTotalRecords) /\ ~IsInf(agg.maxTotalRecords)) =>
         Len(agg.allRecords) <= agg.maxTotalRecords[1]

C15_Witness ==
    /\ agg.pc = "returned"
    /\ agg.maxTotalRecords = Num(3)
    /\ agg.maxRecordsPerPage = 2
    /\ Len(agg.requests) = 2
    /\ agg.requests[2].maxRecords = 1
    /\ Len(agg.allRecords) = 3
    /\ agg.matched = 4

\* C16: when a callback is given, onPage has been called once for each page
\* received, with page numbers 1, 2, 3, ... in order; each call comes right
\* after that page's records were accumulated and before the next request;
\* a fetch that failed is followed by nothing.  Without a callback nothing
\* is called.
C16_OnPageOncePerPage ==
    /\ agg.onPage # "none" =>
         agg.calls = [k \in 1..Len(agg.results) |-> k]
    /\ agg.onPage = "none" => agg.calls = <<>>
    /\ Count(agg.log, "push") = Len(agg.results)
    /\ Count(agg.log, "onPage") = Len(agg.calls)
    /\ Len(agg.allRecords) = RecordsIn(agg.results, Len(agg.results))
    /\ \A i \in DOMAIN agg.log :
         /\ agg.log[i] = "onPage" => i > 1 /\ agg.log[i - 1] = "push"
         /\ (agg.log[i] = "push" /\ agg.onPage # "none") =>
              i < Len(agg.log) /\ agg.log[i + 1] = "onPage"
         /\ agg.log[i] = "push" => i > 1 /\ agg.log[i - 1] = "fetch"
         /\ agg.log[i] = "error" =>
              i = Len(agg.log) /\ i > 1 /\ agg.log[i - 1] = "fetch"

C16_Witness ==
    /\ agg.onPage = "returns"
    /\ agg.calls = <<1, 2>>
    /\ agg.pc = "rejected"
    /\ agg.log = <<"fetch", "push", "onPage", "fetch", "push", "onPage",
                   "fetch", "error">>

\* The call fetchAllRecords would be in, had it been made without a callback
\* and received the pages rs.
RECURSIVE Replayed(_, _)
Replayed(a, rs) ==
    IF rs = <<>> \/ a.pc # "fetching" THEN a
    ELSE Replayed(AllAfterPage(a, Head(rs)), Tail(rs))

WithoutOnPage ==
    Replayed(AllStart(agg.maxRecordsPerPage, agg.maxTotalRecords, "none",
                      agg.matched),
             agg.results)

SameFlow(a, b) ==
    /\ a.pc = b.pc
    /\ a.requests = b.requests
    /\ a.allRecords = b.allRecords
    /\ a.summary = b.summary

NoFetchFailed == Count(agg.log, "error") = 0

\* C17 (as claimed): for the same server responses and no failed fetch, the
\* call is at every moment where the call without a callback is: the same
\* requests, records and summary, whatever the callback does.
C17_OnPageNeverAlters ==
    (agg.pc # "idle" /\ NoFetchFailed) => SameFlow(agg, WithoutOnPage)

\* C17 (amended): the same holds for a callback that returns without
\* modifying the pageResult it was handed; one that throws makes the call
\* reject after the first page, with nothing returned and no further
\* request.
C17_ReturningOnPageNeverAlters ==
    /\ (agg.pc # "idle" /\ NoFetchFailed /\ agg.onPage \in {"none", "returns"})
         => SameFlow(agg, WithoutOnPage)
    /\ (agg.onPage = "throws" /\ agg.results # <<>>) =>
         /\ agg.pc = "rejected"
         /\ Len(agg.results) = 1
         /\ Len(agg.requests) = 1
         /\ agg.summary = None

C17_Witness ==
    /\ agg.onPage = "returns"
    /\ agg.pc = "returned"
    /\ agg.calls = <<1, 2>>
    /\ WithoutOnPage.calls = <<>>
    /\ Len(WithoutOnPage.requests) = 2

\* C18 (as claimed): the extractor has emitted one record per record-root
\* close tag so far, also when record roots are nested.
C18_OneRecordPerRootClose == Len(px.records) = px.doc.rootsClosed

\* C18 (amended): the extractor has emitted one record per closed
\* record-root element that held no other record-root element (none for one
\* that did), each at its close tag: while such an element is open the
\* current record is present, and after a document without nested record
\* roots there is one record per record-root close tag.  A record that got
\* no field is emitted with all fields unset.
C18_OneRecordPerPlainRoot ==
    /\ Len(px.records) = px.doc.plainClosed
    /\ (px.currentRecord # None) =
         (px.doc.openRoots # <<>> /\ ~Last(px.doc.openRoots))
    /\ px.doc.plainClosed = px.doc.rootsClosed =>
         Len(px.records) = px.doc.rootsClosed
    /\ px.page # None => px.page[1].records = px.records

C18_Witness ==
    /\ px.pc = "returned"
    /\ px.doc.rootsClosed = 3
    /\ px.doc.plainClosed = 2
    /\ Len(px.page[1].records) = 2
    /\ px.page[1].records[1] = NoRecord
    /\ px.page[1].records[2] # NoRecord

\* C19 (as claimed): while a record is open, each of its fields holds the
\* trimmed text of the first element closed on a path of that field since
\* the record was opened (first occurrence wins).
C19_FirstOccurrenceWins ==
    px.currentRecord # None => px.currentRecord[1] = px.doc.first

\* C19 (amended): while a record is open, each of its fields holds the
\* trimmed text of the latest element closed on a path of that field since
\* the record was opened (last occurrence wins), and that is the record
\* emitted at the record root's close tag (seen while no record root is open,
\* in a document without nested record roots).
C19_LastOccurrenceWins ==
    /\ px.currentRecord # None => px.currentRecord[1] = px.doc.last
    /\ (/\ px.records # <<>>
        /\ px.doc.openRoots = <<>>
        /\ px.doc.plainClosed = px.doc.rootsClosed) =>
           Last(px.records) = px.doc.last

C19_Witness ==
    /\ px.pc = "returned"
    /\ Len(px.records) = 1
    /\ px.doc.first.dateStamp = Some(<<"a">>)
    /\ px.doc.last.dateStamp = Some(<<"b">>)
    /\ px.records[1].dateStamp = Some(<<"b">>)

\* C20 (as claimed): in the parser's result, and in the PageResult made of
\* it, the three pagination values are always integers (a missing or
\* unparsable attribute counts as 0).
C20_PaginationAlwaysIntegers ==
    /\ IsNum(px.pagination.numberOfRecordsMatched)
    /\ IsNum(px.pagination.numberOfRecordsReturned)
    /\ IsNum(px.pagination.nextRecord)
    /\ px.page # None =>
         /\ IsNum(px.page[1].pagination.totalMatched)
         /\ IsNum(px.page[1].pagination.returned)
         /\ IsNum(px.page[1].pagination.nextRecord)

ErrorsOf(body) == {i \in DOMAIN body : body[i].type = "error"}
Responded(status) == fp.response # None /\ fp.response[1].status = status

\* C22: a malformed-XML condition reported by the tag-event source at any
\* point of the document makes the enclosing fetchPage call fail with an
\* error carrying the parser's diagnostic; no PageResult, so none of the
\* records completed before the error, reaches the caller.
C22_ParserErrorFailsThePage ==
    (Responded(200) /\ ErrorsOf(fp.response[1].body) # {}) =>
        LET body == fp.response[1].body
            first == CHOOSE i \in ErrorsOf(body) :
                        \A j \in ErrorsOf(body) : i <= j
        IN  /\ fp.pc = "failed"
            /\ fp.page = None
            /\ fp.error = Some(<<"XML parsing error: ", body[first].message>>)

C22_Witness ==
    /\ Responded(200)
    /\ fp.response[1].body =
         SubSeq(MorePage, 1, 8) \o <<ErrorEvent("Unclosed root tag")>>
    /\ fp.pc = "failed"
    /\ Len(px.records) = 1
    /\ fp.error = Some(<<"XML parsing error: ", "Unclosed root tag">>)

HasSearchResults(body) ==
    \E i \in DOMAIN body :
        body[i].type = "open" /\ body[i].name = "csw:SearchResults"

\* C23 (as claimed): fetchPage returns a PageResult only when both the
\* records and the pagination values were obtained from the response: a
\* success-status response whose body contains no search-results element is
\* not returned as a page, so sync.ts is never handed a page with
\* hasMore = false made of such a body.
C23_NoPageWithoutSearchResults ==
    fp.pc = "returned" => HasSearchResults(fp.response[1].body)

\* C24: each fetchPage call performs exactly one network exchange; on a
\* non-success status it fails with an error carrying the status code,
\* without parsing the body and without another exchange.
C24_OneExchangeNoRetry ==
    /\ fp.exchanges = IF fp.request # None THEN 1 ELSE 0
    /\ (fp.response # None /\ ~Ok(fp.response[1].status)) =>
         /\ fp.pc = "failed"
         /\ fp.page = None
         /\ fp.parses = 0
         /\ fp.error = Some(<<"CSW request failed: ",
                              StatusString(fp.response[1].status),
                              StatusText(fp.response[1].status)>>)

C24_Witness ==
    /\ Responded(500)
    /\ fp.pc = "failed"
    /\ fp.exchanges = 1
    /\ fp.error = Some(<<"CSW request failed: ", "500",
                         "Internal Server Error">>)

\* C25 (as claimed): no request is sent to the CSW endpoint when the start
\* date is absent, at every entry point that takes one.
C25_NoRequestWithoutStartDate ==
    fp.exchanges > 0 => fp.options.startDate # None

\* C27: the request encoder emits the lower bound (modified >= startDate)
\* in every request, adds the upper bound (modified < endDate) as a
\* conjunction exactly when an endDate (a non-empty string) is given, and
\* always requests ascending sort on the modification date; every page
\* request sync.ts makes carries both bounds.
C27_RequestBounds ==
    fp.request # None =>
        LET body == fp.request[1]
            o == fp.options
        IN  /\ body.filter[1] = [op |-> "ogc:PropertyIsGreaterThanOrEqualTo",
                                 property |-> "apiso:Modified",
                                 literal |-> Literal(o.startDate)]
            /\ Len(body.filter) = IF Truthy(o.endDate) THEN 2 ELSE 1
            /\ body.conjunction = (Len(body.filter) = 2)
            /\ Len(body.filter) = 2 =>
                 body.filter[2] = [op |-> "ogc:PropertyIsLessThan",
                                   property |-> "apiso:Modified",
                                   literal |-> o.endDate[1]]
            /\ body.sortBy = [property |-> "apiso:Modified", order |-> "ASC"]
            /\ fp.caller = "sync" =>
                 /\ body.conjunction
                 /\ body.filter[1].literal = StartDay
                 /\ body.filter[2].literal = EndDay

C27_Witness ==
    /\ fp.caller = "sync"
    /\ fp.request # None
    /\ fp.request[1].conjunction
    /\ fp.request[1].startPosition = Num(2)
    /\ Len(fp.request[1].filter) = 2

\* C28: running the extractor twice on the same response body yields
\* identical PageResults, whatever calls were made before and in between:
\* no state survives from one extraction into the next.
C28_SameBodySamePage ==
    (/\ fp.pc = "returned"
     /\ fp.earlier # None
     /\ fp.earlier[1].body = fp.response[1].body) =>
        /\ fp.page = fp.earlier[1].page
        /\ px = parseGetRecordsResponse(NoParse, fp.response[1].body)

C28_Witness ==
    /\ fp.pc = "returned"
    /\ fp.earlier # None
    /\ fp.earlier[1].body = MorePage
    /\ fp.response[1].body = MorePage
    /\ Len(fp.page[1].records) = 1

\* The cursors of either shape tried for the round trip.
CursorsTried ==
    {IdleCursor(lastRun) : lastRun \in {None, Some(0), Some(SLEEP_MS)}}
    \cup {PendingCursor(lastRun, startDate, endDate, Num(n)) :
            lastRun \in {None, Some(0)}, startDate \in {0, SLEEP_MS},
            endDate \in {0, SLEEP_MS}, n \in 1..MaxMatched}

\* The cursor main has passed to writeCursor when it is done with output.
Written ==
    IF ~Last(run.results).pagination.hasMore
    THEN [lastRun |-> Some(run.endDate), pending |-> None]
    ELSE [lastRun |-> run.cursor.lastRun,
          pending |-> Some([startDate |-> run.startDate,
                            endDate |-> run.endDate,
                            startPosition |-> run.position])]

\* C26: for every cursor of either shape (idle: pending null; in progress:
\* pending {startDate, endDate, startPosition}), writing it with writeCursor
\* and reading that line back with readCursor yields a cursor equal in shape
\* and in every field; so it is for the cursor an invocation wrote.
C26_CursorRoundTrip ==
    /\ \A c \in CursorsTried :
         readCursor(Some(Last(writeCursor(<<>>, c)))) = c
    /\ (run.pc = "done" /\ run.stdout # <<>>) =>
         readCursor(Some(Last(run.stdout))) = Written

C26_Witness ==
    /\ run.pc = "done"
    /\ run.stdout # <<>>
    /\ Written.lastRun # None
    /\ Written.pending # None
    /\ readCursor(Some(Last(run.stdout))) = Written

\* C29: pages are fetched strictly sequentially and in offset order: within
\* one invocation or one fetchAllRecords run at most one page request is
\* outstanding at any time, and the startPosition of each request after the
\* first equals the nextRecord reported by the immediately preceding
\* response.
C29_SequentialInOffsetOrder ==
    /\ Len(run.requests) - Len(run.results) \in {0, 1}
    /\ Len(run.requests) > Len(run.results) =>
         run.pc \in {"fetching", "failed", "aborted"}
    /\ \A i \in DOMAIN run.requests :
         i > 1 => /\ i - 1 \in DOMAIN run.results
                  /\ run.requests[i].startPosition =
                       run.results[i - 1].pagination.nextRecord
    /\ Len(agg.requests) - Len(agg.results) \in {0, 1}
    /\ Len(agg.requests) > Len(agg.results) =>
         agg.pc \in {"fetching", "rejected"}
    /\ \A i \in DOMAIN agg.requests :
         i > 1 => /\ i - 1 \in DOMAIN agg.results
                  /\ agg.requests[i].startPosition =
                       agg.results[i - 1].pagination.nextRecord

C29_Witness ==
    /\ Len(run.requests) = 2
    /\ run.pc = "fetching"
    /\ run.requests[1].startPosition = Num(1)
    /\ run.requests[2].startPosition = Num(2)
    /\ run.results[1].pagination.nextRecord = Num(2)

C29_WitnessAll ==
    /\ Len(agg.requests) = 2
    /\ agg.pc = "fetching"
    /\ agg.requests[2].startPosition # Num(1)
    /\ agg.requests[2].startPosition = agg.results[1].pagination.nextRecord

\* The page budget as a count: a --max-pages that is not a number lets no
\* page through.
BudgetOf(r) == IF IsNum(r.maxPages) THEN r.maxPages[1] ELSE 0
FetchesBefore(i) == Cardinality({j \in 1..(i - 1) : run.log[j] = "fetch"})

\* C30: a sync invocation with page budget B fetches at most B pages, and
\* the inter-page delay occurs only between two consecutive page fetches of
\* the same invocation: never before the first page, never after the last
\* page the budget allows or the window has, and never after a cursor write.
C30_BudgetAndDelays ==
    /\ Count(run.log, "fetch") <= BudgetOf(run)
    /\ Len(run.requests) = Count(run.log, "fetch")
    /\ \A i \in DOMAIN run.log :
         /\ run.log[i] = "write" => i = Len(run.log)
         /\ run.log[i] = "sleep" =>
              /\ i > 1 /\ run.log[i - 1] = "fetch"
              /\ run.results[FetchesBefore(i)].pagination.hasMore
              /\ FetchesBefore(i) < BudgetOf(run)
              /\ IF i < Len(run.log) THEN run.log[i + 1] = "fetch"
                 ELSE run.pc \in {"sleeping", "aborted"}

C30_Witness ==
    /\ run.pc = "done"
    /\ run.maxPages = Num(2)
    /\ run.log = <<"read", "fetch", "sleep", "fetch", "write">>

\* C31: when no cursor has been persisted (CSW_CURSOR unset or empty), the
\* invocation's window is [now - 15 minutes, now), now being the clock at
\* invocation start shifted by TIME_OFFSET_DAYS, every request is for that
\* window and the first request uses startPosition 1.
C31_FirstEverRun ==
    (Running /\ (cursorBefore = Unset \/ cursorBefore = Some(EmptyString))) =>
        /\ run.now = run.started - run.days * DayMs
        /\ window = Some([startDate |-> run.now - 15 * 60 * 1000,
                          endDate |-> run.now])
        /\ \A i \in DOMAIN run.requests :
             /\ run.requests[i].startDate = run.now - 15 * 60 * 1000
             /\ run.requests[i].endDate = run.now
        /\ run.requests # <<>> => run.requests[1].startPosition = Num(1)

C31_Witness ==
    /\ Running
    /\ cursorBefore = Some(EmptyString)
    /\ run.days = 1
    /\ Len(run.requests) = 2
    /\ run.requests[1].startPosition = Num(1)
    /\ run.requests[2].startDate = run.now - 15 * 60 * 1000

\* C32 (as claimed): in the Worker's scheduled handler a run whose CSW fetch
\* fails leaves the stored lastRun as it was when the run started, so that
\* lastRun still is the end of a window whose pages were all fetched.
C32_FailedRunKeepsLastRun ==
    job.pc = "failed" =>
        /\ CSW_KV = job.before
        /\ CSW_KV # None => CSW_KV[1] \in job.harvested

\* C33: the accumulator holds exactly the text chunks delivered since the
\* most recent open tag, joined in order, and the value a field has after a
\* matching element closed is the trimmed whole of them: text that came in
\* several chunks for one node is captured whole.
C33_TextCapturedWhole ==
    px.pc = "parsing" =>
        /\ px.textBuffer = Joined(px.doc.sinceOpen)
        /\ px.currentRecord # None =>
               \A field \in DOMAIN NoRecord :
                   px.currentRecord[1][field] = px.doc.last[field]

\* A record is open whose dateStamp came in two chunks and holds both.
C33_Witness ==
    /\ px.pc = "parsing"
    /\ px.currentRecord # None
    /\ px.doc.sinceOpen = <<<<"a">>, <<"b">>>>
    /\ px.currentRecord[1].dateStamp = Some(<<"a", "b">>)

\* C34: fields are extracted only while a record is open and each record
\* starts with all fields unset: the open tag of a record root leaves a
\* current record with every field unset, and a step taken while no record
\* root is open neither changes the emitted records nor leaves a current
\* record, so text on a field path outside every record root reaches no
\* emitted record and no field value passes from one record to a later one.
C34_FieldsOnlyInsideRecords ==
    [][px.pc = "parsing" /\ px'.pc = "parsing" =>
         /\ Len(px'.doc.openRoots) > Len(px.doc.openRoots) =>
                px'.currentRecord = Some(NoRecord)
         /\ px.doc.openRoots = <<>> /\ px'.doc.openRoots = <<>> =>
                /\ px'.records = px.records
                /\ px'.currentRecord = None]_vars

\* A record with dateStamp a was emitted, then a dateStamp element outside
\* every record root closed with text b, then an empty record root closed:
\* the later record has every field unset.
C34_Witness ==
    /\ px.pc = "parsing"
    /\ px.doc.stray = Some(<<"b">>)
    /\ Len(px.records) = 2
    /\ px.records[1].dateStamp = Some(<<"a">>)
    /\ px.records[2] = NoRecord

\* C36: every cursor an invocation writes has one of two shapes: pending
\* null and lastRun a timestamp, or pending present with startDate, endDate
\* and a numeric startPosition; a cursor written with pending present has
\* the lastRun that the invocation read at its start.
C36_WrittenCursorShapes ==
    \A i \in DOMAIN run.stdout :
        LET written == readCursor(Some(run.stdout[i]))
        IN  \/ /\ written.pending = None
               /\ written.lastRun # None
            \/ /\ written.pending # None
               /\ DOMAIN written.pending[1] =
                      {"startDate", "endDate", "startPosition"}
               /\ IsNum(written.pending[1].startPosition)
               /\ written.lastRun = run.cursor.lastRun

\* An invocation that read a cursor with a lastRun has written a cursor
\* with a pending window.
C36_Witness ==
    /\ run.pc = "done"
    /\ run.stdout # <<>>
    /\ run.cursor.lastRun # None
    /\ readCursor(Some(Last(run.stdout))).pending # None

\* C37: when the cursor read at the start of the invocation has no pending
\* window or a pending startPosition of at least 1, every startPosition the
\* invocation sends in a page request is at least 1, and a startPosition it
\* writes in a pending window is at least 1 and at most the totalMatched of
\* the last page fetched.
C37_StartPositionBounds ==
    (run.cursor.pending = None
        \/ JsGT(run.cursor.pending[1].startPosition, Num(0))) =>
        /\ \A i \in DOMAIN run.requests :
               JsGT(run.requests[i].startPosition, Num(0))
        /\ \A i \in DOMAIN run.stdout :
               LET written == readCursor(Some(run.stdout[i]))
               IN  written.pending # None =>
                       /\ JsGT(written.pending[1].startPosition, Num(0))
                       /\ JsLE(written.pending[1].startPosition,
                               Last(run.results).pagination.totalMatched)

\* An invocation resumed at a startPosition above 1, fetched two pages and
\* wrote a pending window whose startPosition is the last totalMatched.
C37_Witness ==
    /\ run.pc = "done"
    /\ run.cursor.pending # None
    /\ JsGT(run.cursor.pending[1].startPosition, Num(1))
    /\ Len(run.requests) = 2
    /\ run.stdout # <<>>
    /\ readCursor(Some(Last(run.stdout))).pending # None
    /\ readCursor(Some(Last(run.stdout))).pending[1].startPosition =
           Last(run.results).pagination.totalMatched

\* The server of the invocation made progress: each page with hasMore true
\* reported a nextRecord greater than the startPosition requested.
ServerAdvanced ==
    \A i \in DOMAIN run.results :
        run.results[i].pagination.hasMore =>
            JsGT(run.results[i].pagination.nextRecord,
                 run.requests[i].startPosition)

\* C38: when the workflow stores the outcome of a successful invocation
\* whose server made progress, the variable either holds the completed
\* window's end as lastRun, or holds the invocation's window as pending with
\* a startPosition greater than the one the invocation started from; and no
\* other step changes a pending window's startPosition.
C38_ResumeOffsetIncreases ==
    [][LET after == readCursor(CSW_CURSOR')
       IN  /\ (run.pc = "done" /\ run'.pc = "idle" /\ ServerAdvanced) =>
                \/ after = IdleCursor(Some(run.endDate))
                \/ /\ after.pending # None
                   /\ after.pending[1].startDate = run.startDate
                   /\ after.pending[1].endDate = run.endDate
                   /\ JsGT(after.pending[1].startPosition, run.startPosition)
           /\ (run.pc # "done" /\ after.pending # None) =>
                CSW_CURSOR' = CSW_CURSOR]_vars

\* The window the running invocation has created.
NewWindow ==
    /\ run.pc # "idle"
    /\ run.cursor.pending = None
    /\ ledger.lastEnd # None

\* Two half-open windows share a timestamp.
Overlap(v, w) ==
    Max(v.startDate, w.startDate) < Min(v.endDate, w.endDate)

\* The timestamps looked at: the records' modification dates and the
\* windows' starts.
Stamps ==
    {catalogue[i] : i \in DOMAIN catalogue}
        \cup {w.startDate : w \in ledger.done}

\* The start of each new window is the end of the window completed last,
\* and no timestamp from the first window's start up to that end lies
\* outside every completed window.
Contiguous ==
    /\ NewWindow => run.startDate = ledger.lastEnd[1]
    /\ ledger.lastEnd # None =>
         \A t \in Stamps :
            (ledger.first[1] <= t /\ t < ledger.lastEnd[1]) =>
                \E w \in ledger.done : w.startDate <= t /\ t < w.endDate

\* C35 as stated: successive windows are contiguous, so no timestamp after
\* the first window's start falls in a gap between windows or in two
\* windows.
C35_WindowsTile ==
    /\ Contiguous
    /\ NewWindow => \A w \in ledger.done : ~Overlap(w, run)
    /\ \A v, w \in ledger.done : v # w => ~Overlap(v, w)

\* C35 amended: successive windows are contiguous and leave no gap; no
\* timestamp falls in two windows as long as no window has ended before it
\* started, that is as long as the shifted clock of an invocation was never
\* earlier than the lastRun it read.
C35_WindowsContiguous ==
    /\ Contiguous
    /\ (\A w \in ledger.done : w.startDate <= w.endDate) =>
         /\ (NewWindow /\ run.startDate <= run.endDate) =>
                \A w \in ledger.done : ~Overlap(w, run)
         /\ \A v, w \in ledger.done : v # w => ~Overlap(v, w)

\* The first window ever was completed and an invocation has created the
\* next one, which starts at the first one's end and ends a minute later.
C35_Witness ==
    /\ NewWindow
    /\ \E w \in ledger.done :
         /\ w.startDate = 0 - LookbackMs
         /\ w.endDate = 0
    /\ run.startDate = 0
    /\ run.endDate = SLEEP_MS

\* C39: at-least-once harvesting: whenever the stored cursor is idle at the
\* end of the window completed last, every position from 1 to the number of
\* records of that window has been returned by some resolved fetchPage
\* call, whatever fetches failed and whatever invocations were aborted on
\* the way.
C39_AtLeastOnce ==
    (ledger.lastEnd # None
        /\ readCursor(CSW_CURSOR) = IdleCursor(ledger.lastEnd)) =>
        ledger.missed = {}

\* C40: when two invocations overlap, the stored lastRun still is only ever
\* the end of a completed window, and no window is completed unless every
\* position of its result set was returned to some invocation: the overlap
\* may store an older position or fetch pages twice, but skips no record.
C40_OverlapNeverSkips ==
    /\ ledger.missed = {}
    /\ readCursor(CSW_CURSOR).lastRun # None =>
         \E w \in ledger.done :
            w.endDate = readCursor(CSW_CURSOR).lastRun[1]

\* Two invocations read the same cursor; the first has completed a window
\* of two records and its lastRun is stored, while the second still runs
\* and has written a pending window it will store next.
C40_Witness ==
    /\ run.pc = "idle" /\ run.ended = "done"
    /\ other.pc = "done"
    /\ other.cursor = readCursor(cursorBefore)
    /\ readCursor(CSW_CURSOR).pending = None
    /\ readCursor(CSW_CURSOR).lastRun = ledger.lastEnd
    /\ Cardinality(ledger.fetched) >= 2
    /\ other.stdout # <<>>
    /\ readCursor(Some(Last(other.stdout))).pending # None

====
